---- MODULE Spec2Model ----
(***************************************************************************)
(* Model of the kube-MCP server: the Access Policy Engine                  *)
(* (SecurityManager), the Operation and Workflow registries (ToolManager,  *)
(* PromptManager), the Request Dispatcher / Streaming Gateway              *)
(* (MCPKubernetesServer), the Cluster Connector (KubernetesManager), the   *)
(* Entity Registry with its URI handlers (ResourceManager), the Command    *)
(* Translator (KubectlExecutor) with its table and age formatting, the     *)
(* configuration loader (loadConfig) and the MetricsManager.               *)
(*                                                                         *)
(* Strings that the code inspects character by character (resource keys,   *)
(* rule patterns, tool names) are sequences of one-character strings.      *)
(* JavaScript runs every handler to its next await without interruption,   *)
(* so one action is one such run.                                          *)
(***************************************************************************)
EXTENDS Integers, Sequences, FiniteSets, TLC

\* ------------------------------------------------------------------ bounds
\* config.security.rateLimitWindowMs, in clock ticks
rateLimitWindowMs == 2
\* config.security.rateLimitMaxRequests
rateLimitMaxRequests == 2
\* the clock (Date.now()) runs from 0 to MaxTime
MaxTime == 4
\* number of rate-limit checks recorded in the history of SpecRate
MaxChecks == 5
\* length of the rule lists drawn in SpecPolicy
MaxRules == 3
\* number of request slots of the dispatcher (requests in flight at once)
MaxRequests == 1
\* number of register() calls made after the constructors (SpecRegistry)
MaxRegistrations == 3
\* number of segments after "scheme://" of the URIs drawn in SpecUri
MaxSegments == 3

VARIABLES
  now,          \* Date.now()
  policies,     \* SecurityManager.policies : name -> rule list
  rateLimits,   \* SecurityManager.rateLimits : identity -> RateLimitState
  lastCall,     \* outcome of the latest validateAccess / cleanup call
  checks,       \* history of the rate-limit checks made so far
  evalIn,       \* inputs of the latest evaluation of a function (SpecPolicy, SpecMatch, SpecUri)
  evalOut,      \* its outputs
  transport,    \* config.server.transport
  requests,     \* the dispatcher's requests: slot -> request record
  connector,    \* the KubernetesManager and the calls made on it
  registry,     \* the handlers maps of the ToolManager and the ResourceManager
  metricsManager \* the MetricsManager, its timers and its metrics map

secVars == <<now, policies, rateLimits, lastCall, checks>>
evalVars == <<evalIn, evalOut>>
dispVars == <<transport, requests>>
extVars == <<connector, registry, metricsManager>>
vars == <<now, policies, rateLimits, lastCall, checks, evalIn, evalOut, transport, requests,
          connector, registry, metricsManager>>

\* ----------------------------------------------------------------- strings
\* String.prototype.startsWith
startsWith(s, prefix) ==
  /\ Len(prefix) <= Len(s)
  /\ SubSeq(s, 1, Len(prefix)) = prefix

\* String.prototype.endsWith
endsWith(s, suffix) ==
  /\ Len(suffix) <= Len(s)
  /\ SubSeq(s, Len(s) - Len(suffix) + 1, Len(s)) = suffix

\* resource keys and patterns of the built-in policies, and tool names
star == <<"*">>
tools_star == <<"t","o","o","l","s","/","*">>
resources_star == <<"r","e","s","o","u","r","c","e","s","/","*">>
prompts_star == <<"p","r","o","m","p","t","s","/","*">>
tools_kubectl == <<"t","o","o","l","s","/","k","u","b","e","c","t","l">>
tools_get_star == <<"t","o","o","l","s","/","g","e","t","_","*">>
tools_get_pods == <<"t","o","o","l","s","/","g","e","t","_","p","o","d","s">>
resources_k8s_secret == <<"r","e","s","o","u","r","c","e","s","/","k","8","s","-","s","e","c","r","e","t">>
resources_k8s_pod == <<"r","e","s","o","u","r","c","e","s","/","k","8","s","-","p","o","d">>
get_pods == <<"g","e","t","_","p","o","d","s">>
kubectl == <<"k","u","b","e","c","t","l">>
validate_yaml == <<"v","a","l","i","d","a","t","e","_","y","a","m","l">>
no_such_tool == <<"n","o","p","e">>

\* ------------------------------------------------------------ access rules
\* SecurityRule: operations and conditions are optional
Rule(action, resource, hasOperations, operations, hasConditions, conditions) ==
  [action |-> action, resource |-> resource,
   hasOperations |-> hasOperations, operations |-> operations,
   hasConditions |-> hasConditions, conditions |-> conditions]

\* a condition value: an array of admissible values, or one scalar
ListCond(vals) == [isArray |-> TRUE, values |-> vals]
ScalarCond(v) == [isArray |-> FALSE, values |-> {v}]

NoConditions == [k \in {} |-> ListCond({})]
SimpleRule(action, resource, operations) ==
  Rule(action, resource, TRUE, operations, FALSE, NoConditions)

\* the params argument: undefined, or an object key -> value
NoParams == [present |-> FALSE, map |-> [k \in {} |-> ""]]
Params(m) == [present |-> TRUE, map |-> m]
CommandParams(v) == Params([k \in {"command"} |-> v])
EmptyParams == Params([k \in {} |-> ""])

defaultPolicy ==
  << SimpleRule("allow", tools_star, {"execute"}),
     SimpleRule("allow", resources_star, {"read"}),
     SimpleRule("allow", prompts_star, {"generate"}) >>

strictPolicy ==
  << Rule("deny", tools_kubectl, TRUE, {"execute"}, TRUE,
          [k \in {"command"} |-> ListCond({"delete", "apply", "create"})]),
     SimpleRule("deny", resources_k8s_secret, {"read"}),
     SimpleRule("allow", tools_get_star, {"execute"}),
     SimpleRule("allow", resources_k8s_pod, {"read"}) >>

\* the policies map after the constructor
initializeDefaultPolicies ==
  [n \in {"default", "strict"} |-> IF n = "default" THEN defaultPolicy ELSE strictPolicy]

\* SecurityManager.matchesPattern
matchesPattern(pattern, resource) ==
  IF pattern = star THEN TRUE
  ELSE IF endsWith(pattern, star)
       THEN startsWith(resource, SubSeq(pattern, 1, Len(pattern) - 1))
  ELSE IF startsWith(pattern, star)
       THEN endsWith(resource, SubSeq(pattern, 2, Len(pattern)))
  ELSE pattern = resource

\* one entry of rule.conditions against params[key]
conditionHolds(cond, params, key) ==
  IF cond.isArray
  THEN key \in DOMAIN params.map /\ params.map[key] \in cond.values
  ELSE key \in DOMAIN params.map /\ {params.map[key]} = cond.values

\* SecurityManager.matchesRule
matchesRule(rule, resource, operation, params) ==
  IF ~matchesPattern(rule.resource, resource) THEN FALSE
  ELSE IF rule.hasOperations /\ operation \notin rule.operations THEN FALSE
  ELSE IF rule.hasConditions /\ params.present
       THEN \A key \in DOMAIN rule.conditions :
              conditionHolds(rule.conditions[key], params, key)
  ELSE TRUE

\* the loop of evaluatePolicy from rule i on, with the running value of allowed
RECURSIVE evaluateFrom(_, _, _, _, _, _)
evaluateFrom(rules, i, allowed, resource, operation, params) ==
  IF i > Len(rules) THEN allowed
  ELSE evaluateFrom(rules, i + 1,
         IF matchesRule(rules[i], resource, operation, params)
         THEN rules[i].action = "allow"
         ELSE allowed,
         resource, operation, params)

\* evaluatePolicy that stops at the first matching rule
evaluatePolicy_firstMatch(rules, resource, operation, params) ==
  LET matching == {i \in 1..Len(rules) : matchesRule(rules[i], resource, operation, params)}
  IN /\ matching # {}
     /\ \E i \in matching :
          /\ \A j \in matching : i <= j
          /\ rules[i].action = "allow"

\* SecurityManager.evaluatePolicy on a policy's rule list
evaluatePolicy(rules, resource, operation, params) ==
  evaluateFrom(rules, 1, FALSE, resource, operation, params)

\* ------------------------------------------------------------ rate limiting
\* SecurityContext: null, or an object whose userId is optional
NullContext == [isNull |-> TRUE, hasUserId |-> FALSE, userId |-> ""]
EmptyContext == [isNull |-> FALSE, hasUserId |-> FALSE, userId |-> ""]
UserContext(u) == [isNull |-> FALSE, hasUserId |-> TRUE, userId |-> u]

\* _context.userId || 'anonymous'
identityOf(ctx) ==
  IF ctx.hasUserId /\ ctx.userId # "" THEN ctx.userId ELSE "anonymous"

\* Map.set
MapSet(m, k, v) == [x \in DOMAIN m \cup {k} |-> IF x = k THEN v ELSE m[x]]

\* the requests array of an identity, empty when the map has no entry
windowOf(rl, userId) ==
  IF userId \in DOMAIN rl THEN rl[userId].requests ELSE <<>>

\* state.requests.filter(timestamp => now - timestamp < windowSize)
pruneWindow(reqs, t) ==
  SelectSeq(reqs, LAMBDA timestamp : t - timestamp < rateLimitWindowMs)

\* checkRateLimit that lets one request too many through
checkRateLimit_offByOne(rl, userId, t) ==
  LET pruned == [requests |-> pruneWindow(windowOf(rl, userId), t), lastCleanup |-> t]
      inPlace == IF userId \in DOMAIN rl THEN [rl EXCEPT ![userId] = pruned] ELSE rl
  IN IF Len(pruned.requests) > rateLimitMaxRequests
     THEN [allowed |-> FALSE, rateLimits |-> inPlace]
     ELSE [allowed |-> TRUE,
           rateLimits |-> MapSet(rl, userId, [pruned EXCEPT !.requests = Append(@, t)])]

\* checkRateLimit that keeps one window for all identities
checkRateLimit_sharedKey(rl, userId, t) ==
  LET pruned == [requests |-> pruneWindow(windowOf(rl, userId), t), lastCleanup |-> t]
      inPlace == IF userId \in DOMAIN rl THEN [rl EXCEPT ![userId] = pruned] ELSE rl
  IN IF Len(pruned.requests) >= rateLimitMaxRequests
     THEN [allowed |-> FALSE, rateLimits |-> inPlace]
     ELSE [allowed |-> TRUE,
           rateLimits |-> MapSet(rl, "anonymous", [pruned EXCEPT !.requests = Append(@, t)])]

\* SecurityManager.checkRateLimit at time t: the decision and the map afterwards.
\* The state object of a known identity is the one held by the map, so its
\* pruning is kept even when the check denies.
checkRateLimit(rl, userId, t) ==
  LET pruned == [requests |-> pruneWindow(windowOf(rl, userId), t), lastCleanup |-> t]
      inPlace == IF userId \in DOMAIN rl THEN [rl EXCEPT ![userId] = pruned] ELSE rl
  IN IF Len(pruned.requests) >= rateLimitMaxRequests
     THEN [allowed |-> FALSE, rateLimits |-> inPlace]
     ELSE [allowed |-> TRUE,
           rateLimits |-> MapSet(rl, userId, [pruned EXCEPT !.requests = Append(@, t)])]

\* cleanup that empties the map
cleanup_dropAll(rl, t) == [u \in {} |-> rl[u]]

\* SecurityManager.cleanup at time t
cleanup(rl, t) ==
  LET kept == {u \in DOMAIN rl : Len(pruneWindow(rl[u].requests, t)) # 0}
  IN [u \in kept |-> [rl[u] EXCEPT !.requests = pruneWindow(@, t)]]

\* ---------------------------------------------------------- validateAccess
\* getApplicablePolicy that falls back to the strict policy when there is no
\* default one
getApplicablePolicy_fallback(pol) ==
  IF "default" \in DOMAIN pol
  THEN [defined |-> TRUE, rules |-> pol["default"]]
  ELSE IF "strict" \in DOMAIN pol
  THEN [defined |-> TRUE, rules |-> pol["strict"]]
  ELSE [defined |-> FALSE, rules |-> <<>>]

\* SecurityManager.getApplicablePolicy: the policy named 'default', if any
getApplicablePolicy(pol) ==
  IF "default" \in DOMAIN pol
  THEN [defined |-> TRUE, rules |-> pol["default"]]
  ELSE [defined |-> FALSE, rules |-> <<>>]

\* what one run of validateAccess did
Outcome(result, threw, exception, rl, rateChecked, rateAllowed, policySelected, rulesEvaluated) ==
  [result |-> result, threw |-> threw, exception |-> exception, rateLimits |-> rl,
   rateChecked |-> rateChecked, rateAllowed |-> rateAllowed,
   policySelected |-> policySelected, rulesEvaluated |-> rulesEvaluated]

\* the body of the try block of validateAccess; exception names what it raised
validateAccessBody(pol, rl, t, ctx, resource, operation, params) ==
  IF ctx.isNull
  THEN \* _context.userId of null
       Outcome(FALSE, FALSE, "TypeError", rl, FALSE, FALSE, FALSE, 0)
  ELSE LET rc == checkRateLimit(rl, identityOf(ctx), t)
           policy == getApplicablePolicy(pol)
       IN IF ~rc.allowed
          THEN Outcome(FALSE, FALSE, "none", rc.rateLimits, TRUE, FALSE, FALSE, 0)
          ELSE IF ~policy.defined
          THEN \* policy.rules of undefined
               Outcome(FALSE, FALSE, "TypeError", rc.rateLimits, TRUE, TRUE, TRUE, 0)
          ELSE Outcome(evaluatePolicy(policy.rules, resource, operation, params),
                       FALSE, "none", rc.rateLimits, TRUE, TRUE, TRUE, Len(policy.rules))

\* validateAccess that evaluates the rules although the rate limit denied
validateAccess_failOpen(pol, rl, t, ctx, resource, operation, params) ==
  LET body == validateAccessBody(pol, rl, t, ctx, resource, operation, params)
      policy == getApplicablePolicy(pol)
  IN IF body.rateChecked /\ ~body.rateAllowed /\ policy.defined
     THEN [body EXCEPT !.result = evaluatePolicy(policy.rules, resource, operation, params),
                       !.policySelected = TRUE,
                       !.rulesEvaluated = Len(policy.rules)]
     ELSE [body EXCEPT !.result = (body.exception = "none" /\ body.result)]

\* validateAccess without its catch block
validateAccess_noCatch(pol, rl, t, ctx, resource, operation, params) ==
  LET body == validateAccessBody(pol, rl, t, ctx, resource, operation, params)
  IN [body EXCEPT !.threw = (body.exception # "none")]

\* SecurityManager.validateAccess: the catch block turns any exception into
\* the result false
validateAccess(pol, rl, t, ctx, resource, operation, params) ==
  LET body == validateAccessBody(pol, rl, t, ctx, resource, operation, params)
  IN [body EXCEPT !.result = (body.exception = "none" /\ body.result),
                  !.threw = FALSE]

\* ------------------------------------------------- the security manager's state
EmptyMap == [k \in {} |-> 0]

\* the record kept of the latest call on the SecurityManager
NoCall ==
  [op |-> "none", identity |-> "", time |-> 0, before |-> EmptyMap,
   resource |-> <<>>, operation |-> "", params |-> NoParams,
   result |-> FALSE, threw |-> FALSE, exception |-> "none",
   rateChecked |-> FALSE, rateAllowed |-> FALSE,
   policySelected |-> FALSE, rulesEvaluated |-> 0]

CallRecord(ctx, before, resource, operation, params, out) ==
  [op |-> "validateAccess", identity |-> IF ctx.isNull THEN "" ELSE identityOf(ctx),
   time |-> now, before |-> before,
   resource |-> resource, operation |-> operation, params |-> params,
   result |-> out.result, threw |-> out.threw, exception |-> out.exception,
   rateChecked |-> out.rateChecked, rateAllowed |-> out.rateAllowed,
   policySelected |-> out.policySelected, rulesEvaluated |-> out.rulesEvaluated]

\* new SecurityManager(config)
SecInit ==
  /\ now = 0
  /\ policies = initializeDefaultPolicies
  /\ rateLimits = EmptyMap
  /\ lastCall = NoCall
  /\ checks = <<>>

NoEval == [phase |-> "idle"]
EvalIdle == evalIn = NoEval /\ evalOut = NoEval

\* time passes between two runs
Tick ==
  /\ now < MaxTime
  /\ now' = now + 1
  /\ UNCHANGED <<policies, rateLimits, lastCall, checks, evalIn, evalOut, transport, requests, extVars>>

\* ------------------------------------------------------------------ SpecRate
\* The rate limiter under calls of validateAccess by several identities.
RateContexts == {EmptyContext, UserContext("alice")}

\* one call validateAccess(ctx, 'get_pods', 'execute'), as the dispatcher makes it
RateCheck(ctx) ==
  /\ Len(checks) < MaxChecks
  /\ LET out == validateAccess(policies, rateLimits, now, ctx, get_pods, "execute", NoParams)
     IN /\ rateLimits' = out.rateLimits
        /\ lastCall' = CallRecord(ctx, rateLimits, get_pods, "execute", NoParams, out)
        /\ checks' = IF out.rateChecked
                     THEN Append(checks, [userId |-> identityOf(ctx), time |-> now,
                                          allowed |-> out.rateAllowed])
                     ELSE checks
  /\ UNCHANGED <<now, policies, evalIn, evalOut, transport, requests, extVars>>

\* one call of cleanup()
Cleanup ==
  /\ rateLimits' = cleanup(rateLimits, now)
  /\ lastCall' = [NoCall EXCEPT !.op = "cleanup", !.time = now, !.before = rateLimits]
  /\ UNCHANGED <<now, policies, checks, evalIn, evalOut, transport, requests, extVars>>

DispIdle ==
  /\ transport = "stdio"
  /\ requests = EmptyMap

\* no KubernetesManager, no registry and no MetricsManager take part
NoConnector == [pc |-> "idle"]
NoRegistry == [pc |-> "idle"]
NoMetricsManager == [pc |-> "idle"]
ExtIdle ==
  /\ connector = NoConnector
  /\ registry = NoRegistry
  /\ metricsManager = NoMetricsManager

InitRate == SecInit /\ EvalIdle /\ DispIdle /\ ExtIdle

NextRate ==
  \/ Tick
  \/ \E ctx \in RateContexts : RateCheck(ctx)
  \/ Cleanup

SpecRate == InitRate /\ [][NextRate]_vars

\* the checks of one identity, in the order they were made
ChecksOf(u) == SelectSeq(checks, LAMBDA c : c.userId = u)

Identities == {identityOf(ctx) : ctx \in RateContexts}

\* the timestamps of the allowed checks of one identity, in order
RECURSIVE TimesOf(_)
TimesOf(s) ==
  IF s = <<>> THEN <<>>
  ELSE IF Head(s).allowed THEN <<Head(s).time>> \o TimesOf(Tail(s))
  ELSE TimesOf(Tail(s))

\* C3: checkRateLimit prunes the identity's window first, then denies without
\* recording when the pruned window holds rateLimitMaxRequests entries or more,
\* else records the current time and allows.  So a check is allowed exactly
\* when fewer than rateLimitMaxRequests earlier allowed checks of the identity
\* are younger than the window: rateLimitMaxRequests+1 calls inside one window
\* give allow, ..., allow, deny; denied calls use no quota; and a call made
\* once the window has elapsed since the first allowed call is allowed again.
C3_CheckRateLimit ==
  /\ (lastCall.op = "validateAccess" /\ lastCall.rateChecked) =>
       LET u == lastCall.identity
           w == windowOf(lastCall.before, u)
           young == {i \in 1..Len(w) : lastCall.time - w[i] < rateLimitWindowMs}
           kept == pruneWindow(w, lastCall.time)
       IN /\ lastCall.rateAllowed = (Cardinality(young) < rateLimitMaxRequests)
          /\ lastCall.rateAllowed => windowOf(rateLimits, u) = Append(kept, lastCall.time)
          /\ ~lastCall.rateAllowed =>
               /\ windowOf(rateLimits, u) = kept
               /\ (u \in DOMAIN rateLimits) = (u \in DOMAIN lastCall.before)
  /\ \A i \in 1..Len(checks) :
       checks[i].allowed =
         (Cardinality({j \in 1..(i - 1) :
             /\ checks[j].userId = checks[i].userId
             /\ checks[j].allowed
             /\ checks[i].time - checks[j].time < rateLimitWindowMs}) < rateLimitMaxRequests)
  /\ \A u \in Identities :
       LET s == ChecksOf(u)
       IN /\ (Len(s) > rateLimitMaxRequests
               /\ s[rateLimitMaxRequests + 1].time - s[1].time < rateLimitWindowMs) =>
                 /\ \A k \in 1..rateLimitMaxRequests : s[k].allowed
                 /\ ~s[rateLimitMaxRequests + 1].allowed
          /\ \A k \in 1..Len(s) :
               LET earlier == {j \in 1..(k - 1) : s[j].allowed}
               IN (/\ earlier # {}
                   /\ Cardinality(earlier) <= rateLimitMaxRequests
                   /\ \E j \in earlier :
                        /\ \A j2 \in earlier : j <= j2
                        /\ s[k].time - s[j].time >= rateLimitWindowMs)
                  => s[k].allowed

\* one identity was allowed rateLimitMaxRequests times and then denied inside
\* one window, and allowed again once the window had elapsed
C3_Witness ==
  \E u \in Identities :
    LET s == ChecksOf(u)
    IN /\ Len(s) >= rateLimitMaxRequests + 2
       /\ s[rateLimitMaxRequests + 1].time - s[1].time < rateLimitWindowMs
       /\ ~s[rateLimitMaxRequests + 1].allowed
       /\ s[rateLimitMaxRequests + 2].time - s[1].time >= rateLimitWindowMs
       /\ s[rateLimitMaxRequests + 2].allowed

\* C4: under every order of checks by several identities no stored window
\* holds more than rateLimitMaxRequests entries, each stored window is a tail
\* of the identity's own allowed checks, no more than rateLimitMaxRequests
\* checks of an identity are allowed in an interval shorter than the window,
\* and a check of one identity leaves the other identities' windows alone.
C4_WindowNeverCorrupted ==
  /\ \A u \in DOMAIN rateLimits :
       /\ Len(rateLimits[u].requests) <= rateLimitMaxRequests
       /\ \E n \in 0..Len(TimesOf(ChecksOf(u))) :
            rateLimits[u].requests =
              SubSeq(TimesOf(ChecksOf(u)), n + 1, Len(TimesOf(ChecksOf(u))))
  /\ \A i \in 1..Len(checks) :
       checks[i].allowed =>
         Cardinality({j \in 1..Len(checks) :
            /\ checks[j].userId = checks[i].userId
            /\ checks[j].allowed
            /\ checks[j].time >= checks[i].time
            /\ checks[j].time - checks[i].time < rateLimitWindowMs}) <= rateLimitMaxRequests
  /\ lastCall.op = "validateAccess" =>
       \A u \in (DOMAIN rateLimits \cup DOMAIN lastCall.before) \ {lastCall.identity} :
          /\ u \in DOMAIN rateLimits
          /\ u \in DOMAIN lastCall.before
          /\ rateLimits[u] = lastCall.before[u]

\* two identities' checks were interleaved and one of them was denied while
\* both hold a window
C4_Witness ==
  /\ Cardinality(DOMAIN rateLimits) = 2
  /\ \E i, j, k \in 1..Len(checks) :
       /\ i < j /\ j < k
       /\ checks[i].userId = checks[k].userId
       /\ checks[j].userId # checks[i].userId
       /\ checks[j].allowed
       /\ ~checks[k].allowed

\* the decisions of a sequence of checks made one after the other from the
\* map rl, with no cleanup() in between
RECURSIVE DecisionsWithoutCleanup(_, _)
DecisionsWithoutCleanup(s, rl) ==
  IF s = <<>> THEN <<>>
  ELSE LET rc == checkRateLimit(rl, Head(s).userId, Head(s).time)
       IN <<rc.allowed>> \o DecisionsWithoutCleanup(Tail(s), rc.rateLimits)

\* C38: with cleanup() called at any points between the checks, every check
\* is decided as it is in the same sequence of checks without any cleanup();
\* and cleanup() leaves in the map exactly the identities whose pruned window
\* is not empty, each with its pruned window.
C38_CleanupTransparent ==
  /\ LET plain == DecisionsWithoutCleanup(checks, EmptyMap)
     IN \A i \in 1..Len(checks) : checks[i].allowed = plain[i]
  /\ lastCall.op = "cleanup" =>
       /\ \A u \in DOMAIN rateLimits :
            /\ u \in DOMAIN lastCall.before
            /\ pruneWindow(rateLimits[u].requests, lastCall.time) # <<>>
            /\ rateLimits[u].requests = pruneWindow(lastCall.before[u].requests, lastCall.time)
       /\ \A u \in DOMAIN lastCall.before \ DOMAIN rateLimits :
            pruneWindow(lastCall.before[u].requests, lastCall.time) = <<>>

\* a check was made for an identity that had been allowed before and that a
\* cleanup() had since removed from the map, and an earlier check was denied
C38_Witness ==
  /\ lastCall.op = "validateAccess" /\ lastCall.rateChecked
  /\ lastCall.identity \notin DOMAIN lastCall.before
  /\ \E i \in 1..(Len(checks) - 1) :
       checks[i].userId = lastCall.identity /\ checks[i].allowed
  /\ \E i \in 1..Len(checks) : ~checks[i].allowed

\* ---------------------------------------------------------------- SpecAccess
\* validateAccess for the contexts of the anonymous identity (null, {} as the
\* dispatcher passes it, and an empty userId), with policies added and removed.
AccessContexts == {NullContext, EmptyContext, UserContext("")}
AccessResources == {get_pods, tools_get_pods, tools_kubectl}
AccessParams == {NoParams, CommandParams("delete")}

permissivePolicy == << Rule("allow", star, FALSE, {}, FALSE, NoConditions) >>
allowThenDenyKubectl ==
  << Rule("allow", star, FALSE, {}, FALSE, NoConditions),
     Rule("deny", tools_kubectl, FALSE, {}, FALSE, NoConditions) >>
PolicyNames == {"default", "strict"}
PolicyPool == {permissivePolicy, allowThenDenyKubectl}

\* one call of validateAccess
AccessCall(ctx, resource, operation, params) ==
  /\ LET out == validateAccess(policies, rateLimits, now, ctx, resource, operation, params)
     IN /\ rateLimits' = out.rateLimits
        /\ lastCall' = CallRecord(ctx, EmptyMap, resource, operation, params, out)
  /\ UNCHANGED <<now, policies, checks, evalIn, evalOut, transport, requests, extVars>>

\* SecurityManager.addPolicy
AddPolicy(name, rules) ==
  /\ policies' = MapSet(policies, name, rules)
  /\ UNCHANGED <<now, rateLimits, lastCall, checks, evalIn, evalOut, transport, requests, extVars>>

\* SecurityManager.removePolicy
RemovePolicy(name) ==
  /\ policies' = [n \in DOMAIN policies \ {name} |-> policies[n]]
  /\ UNCHANGED <<now, rateLimits, lastCall, checks, evalIn, evalOut, transport, requests, extVars>>

InitAccess == SecInit /\ EvalIdle /\ DispIdle /\ ExtIdle

NextAccess ==
  \/ Tick
  \/ \E ctx \in AccessContexts, resource \in AccessResources, params \in AccessParams :
       AccessCall(ctx, resource, "execute", params)
  \/ \E name \in PolicyNames, rules \in PolicyPool : AddPolicy(name, rules)
  \/ \E name \in PolicyNames : RemovePolicy(name)

SpecAccess == InitAccess /\ [][NextAccess]_vars

\* C5: when the rate-limit check denies, validateAccess returns false and has
\* neither selected a policy nor evaluated a rule, whatever the rules are.
C5_RateLimitFailClosed ==
  (lastCall.op = "validateAccess" /\ lastCall.rateChecked /\ ~lastCall.rateAllowed) =>
    /\ ~lastCall.result
    /\ ~lastCall.policySelected
    /\ lastCall.rulesEvaluated = 0

\* a rate-limited call whose request the policy in force allows
C5_Witness ==
  /\ lastCall.op = "validateAccess"
  /\ lastCall.rateChecked /\ ~lastCall.rateAllowed
  /\ "default" \in DOMAIN policies
  /\ evaluatePolicy(policies["default"], lastCall.resource, lastCall.operation, lastCall.params)

\* C8: validateAccess never throws; when anything raised an exception during
\* the rate-limit check, the policy selection or the rule evaluation, the
\* decision returned is deny.
C8_ValidateAccessNeverThrows ==
  lastCall.op = "validateAccess" =>
    /\ ~lastCall.threw
    /\ lastCall.exception # "none" => ~lastCall.result

\* a call that raised an exception while evaluating a missing policy
C8_Witness ==
  /\ lastCall.op = "validateAccess"
  /\ lastCall.exception = "TypeError"
  /\ lastCall.policySelected
  /\ ~lastCall.result

\* the last rule of the list that matches the request allows it
LastMatchAllows(rules, resource, operation, params) ==
  \E i \in 1..Len(rules) :
    /\ matchesRule(rules[i], resource, operation, params)
    /\ rules[i].action = "allow"
    /\ \A j \in (i + 1)..Len(rules) : ~matchesRule(rules[j], resource, operation, params)

\* C37: whatever policies were added and removed before, a call of
\* validateAccess does not throw, returns allow only when a policy named
\* 'default' exists and its last matching rule allows the request, and so
\* returns deny for every request while there is no policy named 'default'.
C37_FailClosedAfterPolicyChanges ==
  [][ (lastCall' # lastCall \/ rateLimits' # rateLimits) =>
        /\ lastCall'.op = "validateAccess"
        /\ ~lastCall'.threw
        /\ lastCall'.result =>
             /\ "default" \in DOMAIN policies
             /\ LastMatchAllows(policies["default"], lastCall'.resource,
                                lastCall'.operation, lastCall'.params)
        /\ "default" \notin DOMAIN policies => ~lastCall'.result ]_vars

\* a call was denied for want of a policy named 'default', while the strict
\* policy in the map allows everything
C37_Witness ==
  /\ lastCall.op = "validateAccess"
  /\ lastCall.exception = "TypeError" /\ lastCall.policySelected
  /\ ~lastCall.result
  /\ "default" \notin DOMAIN policies
  /\ "strict" \in DOMAIN policies /\ policies["strict"] = permissivePolicy

\* ---------------------------------------------------------------- SpecPolicy
\* evaluatePolicy on every rule list drawn from a pool, for every request.
\* bounds of the strings drawn in SpecMatch
MaxPatternLen == 2
MaxResourceLen == 3

RECURSIVE SeqsUpTo(_, _)
SeqsUpTo(S, n) ==
  IF n = 0 THEN {<<>>}
  ELSE LET shorter == SeqsUpTo(S, n - 1)
       IN shorter \cup {Append(q, x) : q \in shorter, x \in S}


PolicyRulePool ==
  { Rule("allow", star, FALSE, {}, FALSE, NoConditions),
    Rule("deny", tools_kubectl, FALSE, {}, FALSE, NoConditions),
    SimpleRule("allow", tools_star, {"execute"}),
    SimpleRule("deny", tools_get_star, {"execute", "read"}),
    Rule("deny", star, FALSE, {}, TRUE, [k \in {"command"} |-> ListCond({"delete", "apply"})]),
    Rule("allow", tools_kubectl, TRUE, {"execute"}, TRUE, [k \in {"command"} |-> ScalarCond("get")]) }
PolicyResources == {tools_kubectl, tools_get_pods, get_pods}
PolicyOperations == {"execute", "read"}
PolicyParams == {NoParams, EmptyParams, CommandParams("delete"), CommandParams("get")}

EvalRequest(rules, resource, operation, params) ==
  [phase |-> "called", rules |-> rules, resource |-> resource,
   operation |-> operation, params |-> params]

SecIdle == SecInit

InitPolicy ==
  /\ SecIdle /\ DispIdle /\ ExtIdle
  /\ evalOut = NoEval
  /\ \E rules \in SeqsUpTo(PolicyRulePool, MaxRules), resource \in PolicyResources,
        operation \in PolicyOperations, params \in PolicyParams :
       evalIn = EvalRequest(rules, resource, operation, params)

\* one run of evaluatePolicy
EvaluatePolicy ==
  /\ evalOut = NoEval
  /\ evalOut' = [phase |-> "evaluated",
                 allowed |-> evaluatePolicy(evalIn.rules, evalIn.resource,
                                            evalIn.operation, evalIn.params)]
  /\ UNCHANGED <<now, policies, rateLimits, lastCall, checks, evalIn, transport, requests, extVars>>

NextPolicy == EvaluatePolicy

SpecPolicy == InitPolicy /\ [][NextPolicy]_vars

\* the indices of the rules that match the request
MatchingRules(in) ==
  {i \in 1..Len(in.rules) : matchesRule(in.rules[i], in.resource, in.operation, in.params)}

\* C6: the outcome of a policy evaluation is the action of the last rule, in
\* registration order, that matches the request, and deny when none matches;
\* with [allow *, deny tools/kubectl], tools/kubectl is denied and
\* tools/get_pods is allowed.
C6_LastMatchWins ==
  evalOut.phase = "evaluated" =>
    /\ evalOut.allowed =
         (/\ MatchingRules(evalIn) # {}
          /\ \E i \in MatchingRules(evalIn) :
               /\ \A j \in MatchingRules(evalIn) : j <= i
               /\ evalIn.rules[i].action = "allow")
    /\ evalIn.rules = allowThenDenyKubectl =>
         /\ evalIn.resource = tools_kubectl => ~evalOut.allowed
         /\ evalIn.resource = tools_get_pods => evalOut.allowed

\* the rules [allow *, deny tools/kubectl] were evaluated for tools/kubectl:
\* both match, and the later one denies
C6_Witness ==
  /\ evalOut.phase = "evaluated"
  /\ evalIn.rules = allowThenDenyKubectl
  /\ evalIn.resource = tools_kubectl
  /\ MatchingRules(evalIn) = {1, 2}
  /\ ~evalOut.allowed

\* ----------------------------------------------------------------- SpecMatch
\* matchesRule on every rule and request over a small alphabet.
\* patterns hold at most one wildcard
MatchPatterns ==
  {p \in SeqsUpTo({"a", "b", "*"}, MaxPatternLen) :
     Cardinality({i \in 1..Len(p) : p[i] = "*"}) <= 1}
MatchResources == SeqsUpTo({"a", "b"}, MaxResourceLen)
MatchOperationLists == {[has |-> FALSE, ops |-> {}], [has |-> TRUE, ops |-> {"execute"}],
                        [has |-> TRUE, ops |-> {"read", "execute"}]}
MatchConditions ==
  { [has |-> FALSE, conds |-> NoConditions],
    [has |-> TRUE, conds |-> NoConditions],
    [has |-> TRUE, conds |-> [k \in {"command"} |-> ListCond({"delete", "apply"})]],
    [has |-> TRUE, conds |-> [k \in {"command"} |-> ScalarCond("get")]],
    [has |-> TRUE, conds |-> [k \in {"command", "namespace"} |->
                                IF k = "command" THEN ListCond({"get"}) ELSE ScalarCond("prod")]] }
MatchParams ==
  { NoParams, EmptyParams, CommandParams("delete"), CommandParams("get"),
    Params([k \in {"command", "namespace"} |-> IF k = "command" THEN "get" ELSE "prod"]) }

InitMatch ==
  /\ SecIdle /\ DispIdle /\ ExtIdle
  /\ evalOut = NoEval
  /\ \E pattern \in MatchPatterns, o \in MatchOperationLists, c \in MatchConditions,
        resource \in MatchResources, operation \in PolicyOperations, params \in MatchParams :
       evalIn = EvalRequest(<<Rule("allow", pattern, o.has, o.ops, c.has, c.conds)>>,
                            resource, operation, params)

\* one run of matchesRule
MatchRule ==
  /\ evalOut = NoEval
  /\ evalOut' = [phase |-> "matched",
                 matches |-> matchesRule(evalIn.rules[1], evalIn.resource,
                                         evalIn.operation, evalIn.params)]
  /\ UNCHANGED <<now, policies, rateLimits, lastCall, checks, evalIn, transport, requests, extVars>>

NextMatch == MatchRule

SpecMatch == InitMatch /\ [][NextMatch]_vars

\* the resource patterns as the specification words them
PatternAccepts(pattern, resource) ==
  \/ pattern = star
  \/ /\ Len(pattern) > 0 /\ pattern[Len(pattern)] = "*"
     /\ startsWith(resource, SubSeq(pattern, 1, Len(pattern) - 1))
  \/ /\ Len(pattern) > 0 /\ pattern[1] = "*"
     /\ endsWith(resource, SubSeq(pattern, 2, Len(pattern)))
  \/ pattern = resource

\* a condition is satisfied by the value the request supplies for its key
ConditionSatisfied(cond, params, key) ==
  /\ params.present
  /\ key \in DOMAIN params.map
  /\ IF cond.isArray THEN params.map[key] \in cond.values
                     ELSE cond.values = {params.map[key]}

\* C7: a rule matches a request exactly when its pattern accepts the resource
\* key, its operation list is absent or holds the operation, and every one of
\* its parameter conditions is satisfied by the supplied params; a request
\* without params satisfies no condition.
C7_RuleMatchesIff ==
  evalOut.phase = "matched" =>
    LET rule == evalIn.rules[1]
    IN evalOut.matches =
         (/\ PatternAccepts(rule.resource, evalIn.resource)
          /\ (~rule.hasOperations \/ evalIn.operation \in rule.operations)
          /\ (rule.hasConditions =>
                \A key \in DOMAIN rule.conditions :
                   ConditionSatisfied(rule.conditions[key], evalIn.params, key)))

\* ------------------------------------------------------ the cluster connector
\* loadKubeConfig's authMethods, in the order of the array
authMethods ==
  << "loadFromInCluster", "loadFromEnvironmentYaml", "loadFromEnvironmentJson",
     "loadFromMinimalConfig", "loadFromCustomPath", "loadFromDefaultPath" >>

\* the contexts a kubeconfig file or blob of the environment holds, and its
\* current-context
KubeContexts == {"dev", "prod"}
KubeCurrent == "dev"

\* the contexts a credential source loads and the current context it sets
contextsOf(method) ==
  IF method = "loadFromInCluster"
  THEN [contexts |-> {"inClusterContext"}, current |-> "inClusterContext"]
  ELSE IF method = "loadFromMinimalConfig"
  THEN [contexts |-> {"default-context"}, current |-> "default-context"]
  ELSE [contexts |-> KubeContexts, current |-> KubeCurrent]

\* the Error a credential source throws
failureOf(method) == <<"failed", method>>

\* the session state a call finds or leaves
NoSnapshot == [context |-> "", clients |-> "", namespace |-> "", contexts |-> {}]
snapshot(c) ==
  [context |-> c.currentContext, clients |-> c.clients, namespace |-> c.currentNamespace,
   contexts |-> c.contexts]

\* no call is waiting on the cluster
NoSessionCall == [op |-> "none", arg |-> "", before |-> NoSnapshot]

\* no call has completed yet
NoSessionResult ==
  [op |-> "none", arg |-> "", threw |-> FALSE, error |-> "none", value |-> "none",
   probed |-> FALSE, read |-> FALSE, initialized |-> FALSE,
   before |-> NoSnapshot, after |-> NoSnapshot]

\* new KubernetesManager(config): config.kubernetes.context is configContext
\* ("" when not set), config.kubernetes.namespace is "default"
newKubernetesManager(configContext) ==
  [pc |-> "NEW", configContext |-> configContext,
   next |-> 1, attempted |-> <<>>, selected |-> "none",
   lastError |-> <<>>, error |-> <<>>,
   connectionEstablished |-> FALSE,
   contexts |-> {}, kubeCurrent |-> "undefined",
   currentContext |-> "undefined", currentNamespace |-> "default",
   clients |-> "none",
   call |-> NoSessionCall, last |-> NoSessionResult]

\* initializeApiClients: every typed sub-client is made for the kubeconfig's
\* current context
initializeApiClients(c) == [c EXCEPT !.clients = c.kubeCurrent]

\* loadKubeConfig that reports the first failure instead of the last
loadKubeConfig_firstError(c, ok) ==
  LET method == authMethods[c.next]
      tried == [c EXCEPT !.attempted = Append(@, [method |-> method, loaded |-> ok])]
      firstError == IF c.lastError = <<>> THEN failureOf(method) ELSE c.lastError
  IN IF ok
     THEN [initializeApiClients(
             [tried EXCEPT !.selected = method,
                           !.contexts = contextsOf(method).contexts,
                           !.kubeCurrent = contextsOf(method).current])
           EXCEPT !.pc = "PROBING"]
     ELSE IF c.next < Len(authMethods)
     THEN [tried EXCEPT !.pc = "LOADING", !.next = c.next + 1, !.lastError = firstError]
     ELSE [tried EXCEPT !.pc = "FAILED", !.next = c.next + 1, !.lastError = firstError,
                        !.error = <<"Failed to load kubeconfig: ", firstError>>]

\* one turn of the loop of loadKubeConfig: the next credential source loads
\* (ok) or throws.  On success loadKubeConfig returns, initialize() makes the
\* sub-clients and starts the probe; after the last failure loadKubeConfig
\* throws and initialize() rethrows.
loadKubeConfig(c, ok) ==
  LET method == authMethods[c.next]
      tried == [c EXCEPT !.attempted = Append(@, [method |-> method, loaded |-> ok])]
  IN IF ok
     THEN [initializeApiClients(
             [tried EXCEPT !.selected = method,
                           !.contexts = contextsOf(method).contexts,
                           !.kubeCurrent = contextsOf(method).current])
           EXCEPT !.pc = "PROBING"]
     ELSE IF c.next < Len(authMethods)
     THEN [tried EXCEPT !.pc = "LOADING", !.next = c.next + 1,
                        !.lastError = failureOf(method)]
     ELSE [tried EXCEPT !.pc = "FAILED", !.next = c.next + 1,
                        !.lastError = failureOf(method),
                        !.error = <<"Failed to load kubeconfig: ", failureOf(method)>>]

\* initialize() once testConnection has settled: on success the current
\* context is read, replaced by the configured one when that differs, and
\* the connector is marked initialized; on failure initialize() throws
initializeAfterProbe(c, ok) ==
  IF ~ok
  THEN [c EXCEPT !.pc = "FAILED",
                 !.error = <<"Kubernetes connection test failed: ", <<"probe">> >>]
  ELSE LET override == c.configContext # "" /\ c.kubeCurrent # c.configContext
       IN [c EXCEPT !.pc = "READY",
                    !.kubeCurrent = IF override THEN c.configContext ELSE @,
                    !.currentContext = IF override THEN c.configContext ELSE c.kubeCurrent,
                    !.connectionEstablished = TRUE]

\* ensureInitialized throws
notInitialized(c) == ~c.connectionEstablished

\* the getters that call ensureInitialized and hand out a typed sub-client
typedGetters ==
  {"getCoreV1Api", "getAppsV1Api", "getBatchV1Api", "getRbacV1Api", "getNetworkingV1Api",
   "getCustomObjectsApi", "getApiExtensionsApi", "getMetricsApi"}

\* the accessors that read the session without calling ensureInitialized
plainGetters == {"getKubeConfig", "getCurrentContext", "getCurrentNamespace"}

\* the accessors that call ensureInitialized and then read the kubeconfig or
\* the cluster
listingAccessors == {"listContexts", "listNamespaces", "getClusterInfo"}

accessors == typedGetters \cup plainGetters \cup listingAccessors

\* what a call that ran without waiting returned or threw
SessionResult(c, op, arg, threw, error, value) ==
  [op |-> op, arg |-> arg, threw |-> threw, error |-> error, value |-> value,
   probed |-> FALSE, read |-> FALSE, initialized |-> c.connectionEstablished,
   before |-> snapshot(c), after |-> snapshot(c)]

\* one call of an accessor; reachable says whether the cluster answers the
\* calls that listNamespaces and getClusterInfo make
accessorResult(c, name, reachable) ==
  IF name \in typedGetters
  THEN IF notInitialized(c)
       THEN SessionResult(c, name, "", TRUE, "not initialized", "none")
       ELSE SessionResult(c, name, "", FALSE, "none", c.clients)
  ELSE IF name = "getKubeConfig"
  THEN SessionResult(c, name, "", FALSE, "none", "kubeConfig")
  ELSE IF name = "getCurrentContext"
  THEN SessionResult(c, name, "", FALSE, "none", c.currentContext)
  ELSE IF name = "getCurrentNamespace"
  THEN SessionResult(c, name, "", FALSE, "none", c.currentNamespace)
  ELSE IF notInitialized(c)
  THEN SessionResult(c, name, "", TRUE, "not initialized", "none")
  ELSE IF name = "listContexts"
  THEN SessionResult(c, name, "", FALSE, "none", "contexts")
  ELSE IF reachable
  THEN SessionResult(c, name, "", FALSE, "none", "items")
  ELSE SessionResult(c, name, "", TRUE, "cluster error", "none")

\* HealthStatus; listed says how the live listNamespace call ended ("none"
\* when it was not made)
HealthStatus(healthy, message, listed) ==
  [healthy |-> healthy, message |-> message, listed |-> listed]

\* KubernetesManager.healthCheck; reachable says whether the cluster answers
healthCheck(c, reachable) ==
  IF ~c.connectionEstablished
  THEN HealthStatus(FALSE, "Kubernetes connection not established", "none")
  ELSE IF reachable
  THEN HealthStatus(TRUE, "Kubernetes connection healthy", "ok")
  ELSE HealthStatus(FALSE, "Kubernetes health check failed: ", "failed")

\* MCPKubernetesServer.healthCheck: kubernetesManager.healthCheck() returns
\* its report and does not throw, so the catch block is not entered
serverHealthCheck(c, reachable) ==
  [status |-> "healthy", kubernetes |-> healthCheck(c, reachable)]

\* switchContext that does not look the name up
switchContext_noLookup(c, contextName) ==
  IF notInitialized(c)
  THEN [c EXCEPT !.last = SessionResult(c, "switchContext", contextName, TRUE,
                                        "not initialized", "none")]
  ELSE [initializeApiClients([c EXCEPT !.kubeCurrent = contextName,
                                       !.currentContext = contextName])
        EXCEPT !.call = [op |-> "switchContext", arg |-> contextName, before |-> snapshot(c)]]

\* switchContext that also puts the namespace back to its default
switchContext_resetNamespace(c, contextName) ==
  IF notInitialized(c)
  THEN [c EXCEPT !.last = SessionResult(c, "switchContext", contextName, TRUE,
                                        "not initialized", "none")]
  ELSE IF contextName \notin c.contexts
  THEN [c EXCEPT !.last = SessionResult(c, "switchContext", contextName, TRUE,
                                        "not found", "none")]
  ELSE [initializeApiClients([c EXCEPT !.kubeCurrent = contextName,
                                       !.currentContext = contextName,
                                       !.currentNamespace = "default"])
        EXCEPT !.call = [op |-> "switchContext", arg |-> contextName, before |-> snapshot(c)]]

\* switchContext up to the await of testConnection: it throws when the
\* connector is not initialized or the name is not a loaded context, else
\* sets the current context, makes the sub-clients anew and starts the probe
switchContext(c, contextName) ==
  IF notInitialized(c)
  THEN [c EXCEPT !.last = SessionResult(c, "switchContext", contextName, TRUE,
                                        "not initialized", "none")]
  ELSE IF contextName \notin c.contexts
  THEN [c EXCEPT !.last = SessionResult(c, "switchContext", contextName, TRUE,
                                        "not found", "none")]
  ELSE [initializeApiClients([c EXCEPT !.kubeCurrent = contextName,
                                       !.currentContext = contextName])
        EXCEPT !.call = [op |-> "switchContext", arg |-> contextName, before |-> snapshot(c)]]

\* switchContext once testConnection has settled
switchContextAfterProbe(c, ok) ==
  [c EXCEPT !.call = NoSessionCall,
            !.last = [op |-> "switchContext", arg |-> c.call.arg, threw |-> ~ok,
                      error |-> IF ok THEN "none" ELSE "connection test failed",
                      value |-> "none", probed |-> TRUE, read |-> FALSE,
                      initialized |-> c.connectionEstablished,
                      before |-> c.call.before, after |-> snapshot(c)]]

\* setCurrentNamespace up to the await of readNamespace
setCurrentNamespace(c, namespace) ==
  IF notInitialized(c)
  THEN [c EXCEPT !.last = SessionResult(c, "setCurrentNamespace", namespace, TRUE,
                                        "not initialized", "none")]
  ELSE [c EXCEPT !.call = [op |-> "setCurrentNamespace", arg |-> namespace,
                          before |-> snapshot(c)]]

\* setCurrentNamespace that assigns the namespace whatever the read says
setCurrentNamespaceAfterRead_unchecked(c, ok) ==
  LET set == [c EXCEPT !.currentNamespace = c.call.arg]
  IN [set EXCEPT !.call = NoSessionCall,
                 !.last = [op |-> "setCurrentNamespace", arg |-> c.call.arg, threw |-> ~ok,
                           error |-> IF ok THEN "none" ELSE "not found",
                           value |-> "none", probed |-> FALSE, read |-> TRUE,
                           initialized |-> c.connectionEstablished,
                           before |-> c.call.before, after |-> snapshot(set)]]

\* setCurrentNamespace once readNamespace has settled: the namespace is
\* assigned after a successful read; any failure of the read is thrown as
\* "Namespace not found"
setCurrentNamespaceAfterRead(c, ok) ==
  LET set == IF ok THEN [c EXCEPT !.currentNamespace = c.call.arg] ELSE c
  IN [set EXCEPT !.call = NoSessionCall,
                 !.last = [op |-> "setCurrentNamespace", arg |-> c.call.arg, threw |-> ~ok,
                           error |-> IF ok THEN "none" ELSE "not found",
                           value |-> "none", probed |-> FALSE, read |-> TRUE,
                           initialized |-> c.connectionEstablished,
                           before |-> c.call.before, after |-> snapshot(set)]]

\* KubernetesManager.cleanup
connectorCleanup(c) == [c EXCEPT !.connectionEstablished = FALSE]

\* ------------------------------------------------------------- SpecConnector
\* One KubernetesManager: initialize() over the six credential sources, the
\* accessors at any moment, and switchContext / setCurrentNamespace one at a
\* time.
ConfigContexts == {"", "prod", "ghost"}
ContextArgs == {"dev", "prod", "ghost"}
NamespaceArgs == {"default", "team-a"}

UnchangedByConnector ==
  UNCHANGED <<now, policies, rateLimits, lastCall, checks, evalIn, evalOut,
              transport, requests, registry, metricsManager>>

\* initialize(): the next credential source is tried
LoadKubeConfig(ok) ==
  /\ connector.pc \in {"NEW", "LOADING"}
  /\ connector' = loadKubeConfig(connector, ok)
  /\ UnchangedByConnector

\* initialize(): the probe of testConnection settles
TestConnection(ok) ==
  /\ connector.pc = "PROBING"
  /\ connector' = initializeAfterProbe(connector, ok)
  /\ UnchangedByConnector

\* a handler calls an accessor
Accessor(name, reachable) ==
  /\ connector' = [connector EXCEPT !.last = accessorResult(connector, name, reachable)]
  /\ UnchangedByConnector

\* the connector's health probe is called
HealthCheck(reachable) ==
  /\ connector' = [connector EXCEPT !.last =
                     SessionResult(connector, "healthCheck", "", FALSE, "none",
                                   healthCheck(connector, reachable))]
  /\ UnchangedByConnector

\* the server's health probe is called
ServerHealthCheck(reachable) ==
  /\ connector' = [connector EXCEPT !.last =
                     SessionResult(connector, "serverHealthCheck", "", FALSE, "none",
                                   serverHealthCheck(connector, reachable))]
  /\ UnchangedByConnector

\* switchContext(contextName) is called
SwitchContext(contextName) ==
  /\ connector.call = NoSessionCall
  /\ connector' = switchContext(connector, contextName)
  /\ UnchangedByConnector

\* the probe of switchContext settles and the call returns or throws
SwitchContextProbe(ok) ==
  /\ connector.call.op = "switchContext"
  /\ connector' = switchContextAfterProbe(connector, ok)
  /\ UnchangedByConnector

\* setCurrentNamespace(namespace) is called
SetCurrentNamespace(namespace) ==
  /\ connector.call = NoSessionCall
  /\ connector' = setCurrentNamespace(connector, namespace)
  /\ UnchangedByConnector

\* the read of setCurrentNamespace settles and the call returns or throws
SetCurrentNamespaceRead(ok) ==
  /\ connector.call.op = "setCurrentNamespace"
  /\ connector' = setCurrentNamespaceAfterRead(connector, ok)
  /\ UnchangedByConnector

\* stop() calls cleanup()
ConnectorCleanup ==
  /\ connector.connectionEstablished
  /\ connector.call = NoSessionCall
  /\ connector' = connectorCleanup(connector)
  /\ UnchangedByConnector

InitConnector ==
  /\ SecInit /\ EvalIdle /\ DispIdle
  /\ registry = NoRegistry
  /\ metricsManager = NoMetricsManager
  /\ \E configContext \in ConfigContexts : connector = newKubernetesManager(configContext)

NextConnector ==
  \/ \E ok \in BOOLEAN : LoadKubeConfig(ok)
  \/ \E ok \in BOOLEAN : TestConnection(ok)
  \/ \E name \in accessors, reachable \in BOOLEAN : Accessor(name, reachable)
  \/ \E reachable \in BOOLEAN : HealthCheck(reachable)
  \/ \E reachable \in BOOLEAN : ServerHealthCheck(reachable)
  \/ \E contextName \in ContextArgs : SwitchContext(contextName)
  \/ \E ok \in BOOLEAN : SwitchContextProbe(ok)
  \/ \E namespace \in NamespaceArgs : SetCurrentNamespace(namespace)
  \/ \E ok \in BOOLEAN : SetCurrentNamespaceRead(ok)
  \/ ConnectorCleanup

SpecConnector == InitConnector /\ [][NextConnector]_vars

\* the order of the credential sources as the documentation lists it
CredentialOrder ==
  << "loadFromInCluster", "loadFromEnvironmentYaml", "loadFromEnvironmentJson",
     "loadFromMinimalConfig", "loadFromCustomPath", "loadFromDefaultPath" >>

\* C13: initialize() tries the credential sources in the order in-cluster,
\* inline YAML, inline JSON, server+token, explicit path, default path; the
\* source it selects is the first that loaded, and no source is tried after
\* it; when all six have failed initialize() has failed with an error that
\* embeds the failure of the last source, the default path.
C13_CredentialOrder ==
  LET a == connector.attempted
  IN /\ Len(a) <= Len(CredentialOrder)
     /\ \A i \in 1..Len(a) : a[i].method = CredentialOrder[i]
     /\ \A i \in 1..(Len(a) - 1) : ~a[i].loaded
     /\ (connector.selected # "none") =
          (Len(a) > 0 /\ a[Len(a)].loaded /\ a[Len(a)].method = connector.selected)
     /\ connector.selected # "none" => connector.pc \in {"PROBING", "READY", "FAILED"}
     /\ (Len(a) = Len(CredentialOrder) /\ connector.selected = "none") =>
          /\ connector.pc = "FAILED"
          /\ connector.error = <<"Failed to load kubeconfig: ", failureOf("loadFromDefaultPath")>>
          /\ ~connector.connectionEstablished

\* all six credential sources were tried and failed
C13_Witness ==
  /\ Len(connector.attempted) = 6
  /\ connector.selected = "none"
  /\ connector.pc = "FAILED"

\* C14: when a credential source has loaded and the probe fails, initialize()
\* has failed: no later source was tried, the initialized flag is false and
\* every accessor called afterwards fails.
C14_ProbeFailureFailsInit ==
  (connector.pc = "FAILED" /\ connector.selected # "none") =>
    /\ connector.error[1] = "Kubernetes connection test failed: "
    /\ connector.attempted[Len(connector.attempted)].method = connector.selected
    /\ ~connector.connectionEstablished
    /\ connector.last.op \in accessors =>
         (connector.last.threw /\ connector.last.error = "not initialized")

\* C15: every accessor called before initialize() has completed successfully
\* fails with the not-initialized error, and returns no value.
C15_AccessorsNeedInitialize ==
  (connector.pc # "READY" /\ connector.last.op \in accessors) =>
    /\ connector.last.threw
    /\ connector.last.error = "not initialized"
    /\ connector.last.value = "none"

C17_SetNamespace ==
  /\ connector.call.op = "setCurrentNamespace" =>
       connector.currentNamespace = connector.call.before.namespace
  /\ connector.last.op = "setCurrentNamespace" =>
       LET res == connector.last
       IN /\ ~res.threw => (res.read /\ res.after.namespace = res.arg)
          /\ res.threw => res.after.namespace = res.before.namespace
          /\ (res.threw /\ res.read) => res.error = "not found"

\* the read of a namespace other than the current one has failed and the
\* namespace set earlier is still the current one
C17_Witness ==
  /\ connector.last.op = "setCurrentNamespace"
  /\ connector.last.threw /\ connector.last.read
  /\ connector.last.arg = "default"
  /\ connector.last.before.namespace = "team-a"
  /\ connector.currentNamespace = "team-a"

\* ---------------------------------------------------------------- SpecRegistry
\* The handlers maps of the ToolManager and the ResourceManager.  A Map keeps
\* its entries in the order in which their keys were first inserted, so a
\* map is the sequence of its entries in that order.
\* a descriptor: its key and the registration that made it, which stands for
\* its description, schema and handler function
Handler(key, id) == [key |-> key, id |-> id]

\* Map.has
handlersHas(handlers, key) == \E i \in 1..Len(handlers) : handlers[i].key = key

\* Map.get: the entry, or undefined
handlersGet(handlers, key) ==
  IF handlersHas(handlers, key)
  THEN [defined |-> TRUE,
        handler |-> handlers[CHOOSE i \in 1..Len(handlers) : handlers[i].key = key]]
  ELSE [defined |-> FALSE, handler |-> Handler(<<>>, 0)]

\* Map.set: the value of a key already present is replaced where it stands,
\* a new key is added at the end
handlersSet(handlers, key, handler) ==
  IF handlersHas(handlers, key)
  THEN [i \in 1..Len(handlers) |-> IF handlers[i].key = key THEN handler ELSE handlers[i]]
  ELSE Append(handlers, handler)

\* register that leaves a key that is already registered alone
register_keepFirst(handlers, handler) ==
  IF handlersHas(handlers, handler.key) THEN handlers
  ELSE Append(handlers, handler)

\* ToolManager.register and ResourceManager.register
register(handlers, handler) == handlersSet(handlers, handler.key, handler)

\* ToolManager.listTools: name, description and inputSchema of every entry
listTools(handlers) ==
  [i \in 1..Len(handlers) |->
     [name |-> handlers[i].key, description |-> handlers[i].id, inputSchema |-> handlers[i].id]]

\* ResourceManager.listResources: uri, name, description and mimeType
listResources(handlers) ==
  [i \in 1..Len(handlers) |->
     [uri |-> <<handlers[i].key, "://">>, name |-> handlers[i].key,
      description |-> handlers[i].id, mimeType |-> "application/json"]]

\* the order in which registerTools and registerResources register
registerToolsOrder == <<get_pods, kubectl, validate_yaml>>
registerResourcesOrder == <<"k8s-pod", "k8s-namespace", "k8s-manifest">>

\* the registrations of a constructor, numbered from first + 1
RECURSIVE registerAll(_, _, _)
registerAll(handlers, keys, first) ==
  IF keys = <<>> THEN handlers
  ELSE registerAll(register(handlers, Handler(Head(keys), first + 1)), Tail(keys), first + 1)

LogEntry(kind, key, id) == [kind |-> kind, key |-> key, id |-> id]

\* the registrations the two constructors make
constructorLog ==
  [i \in 1..(Len(registerToolsOrder) + Len(registerResourcesOrder)) |->
     IF i <= Len(registerToolsOrder)
     THEN LogEntry("tools", registerToolsOrder[i], i)
     ELSE LogEntry("resources", registerResourcesOrder[i - Len(registerToolsOrder)], i)]

NoLookup == [kind |-> "none", key |-> <<>>, at |-> 0, defined |-> FALSE, id |-> 0]
NoListing == [kind |-> "none", at |-> 0, items |-> <<>>]

RegisterToolKeys == {get_pods, validate_yaml, no_such_tool}
RegisterResourceKeys == {"k8s-pod", "k8s-custom"}

UnchangedByRegistry ==
  UNCHANGED <<now, policies, rateLimits, lastCall, checks, evalIn, evalOut,
              transport, requests, connector, metricsManager>>

\* toolManager.register(handler)
RegisterTool(key) ==
  /\ Len(registry.log) < Len(constructorLog) + MaxRegistrations
  /\ LET id == Len(registry.log) + 1
     IN registry' = [registry EXCEPT
          !.tools = register(registry.tools, Handler(key, id)),
          !.log = Append(@, LogEntry("tools", key, id))]
  /\ UnchangedByRegistry

\* resourceManager.register(handler)
RegisterResource(key) ==
  /\ Len(registry.log) < Len(constructorLog) + MaxRegistrations
  /\ LET id == Len(registry.log) + 1
     IN registry' = [registry EXCEPT
          !.resources = register(registry.resources, Handler(key, id)),
          !.log = Append(@, LogEntry("resources", key, id))]
  /\ UnchangedByRegistry

\* the lookup of execute(name) and of readResource(uri)
Lookup(kind, key) ==
  /\ LET got == handlersGet(IF kind = "tools" THEN registry.tools ELSE registry.resources, key)
     IN registry' = [registry EXCEPT
          !.found = [kind |-> kind, key |-> key, at |-> Len(registry.log),
                     defined |-> got.defined, id |-> got.handler.id]]
  /\ UnchangedByRegistry

\* listTools()
ListTools ==
  /\ registry' = [registry EXCEPT
       !.listing = [kind |-> "tools", at |-> Len(registry.log),
                    items |-> listTools(registry.tools)]]
  /\ UnchangedByRegistry

\* listResources()
ListResources ==
  /\ registry' = [registry EXCEPT
       !.listing = [kind |-> "resources", at |-> Len(registry.log),
                    items |-> listResources(registry.resources)]]
  /\ UnchangedByRegistry

\* new ToolManager(...), new ResourceManager(...)
InitRegistry ==
  /\ SecInit /\ EvalIdle /\ DispIdle
  /\ connector = NoConnector
  /\ metricsManager = NoMetricsManager
  /\ registry = [tools |-> registerAll(<<>>, registerToolsOrder, 0),
                 resources |-> registerAll(<<>>, registerResourcesOrder, Len(registerToolsOrder)),
                 log |-> constructorLog,
                 found |-> NoLookup, listing |-> NoListing]

NextRegistry ==
  \/ \E key \in RegisterToolKeys : RegisterTool(key)
  \/ \E key \in RegisterResourceKeys : RegisterResource(key)
  \/ \E key \in RegisterToolKeys : Lookup("tools", key)
  \/ \E key \in RegisterResourceKeys : Lookup("resources", key)
  \/ ListTools
  \/ ListResources

SpecRegistry == InitRegistry /\ [][NextRegistry]_vars

\* the registrations of one registry, in order
LogOf(kind, n) ==
  SelectSeq(SubSeq(registry.log, 1, n), LAMBDA e : e.kind = kind)

\* the registrations whose descriptor a registry holds after the first n
\* registrations: for each key the latest one
HeldOf(kind, n) ==
  LET l == LogOf(kind, n)
  IN SelectSeq(l, LAMBDA e : \A x \in 1..Len(l) : l[x].key = e.key => l[x].id <= e.id)

\* C18: registering a key that is already registered replaces the earlier
\* descriptor without an error: a lookup by key finds the handler of the
\* last registration for that key, and each registry holds exactly one entry
\* per distinct key registered.
C18_LastRegistrationWins ==
  /\ \A kind \in {"tools", "resources"} :
       LET handlers == IF kind = "tools" THEN registry.tools ELSE registry.resources
           held == HeldOf(kind, Len(registry.log))
       IN /\ Len(handlers) = Len(held)
          /\ \A i, j \in 1..Len(handlers) : handlers[i].key = handlers[j].key => i = j
          /\ \A x \in 1..Len(held) :
               /\ handlersGet(handlers, held[x].key).defined
               /\ handlersGet(handlers, held[x].key).handler.id = held[x].id
  /\ registry.found.kind # "none" =>
       LET held == HeldOf(registry.found.kind, registry.found.at)
       IN /\ registry.found.defined = (\E x \in 1..Len(held) : held[x].key = registry.found.key)
          /\ \A x \in 1..Len(held) :
               held[x].key = registry.found.key => registry.found.id = held[x].id

\* get_pods was registered again and a lookup found the later handler
C18_Witness ==
  /\ registry.found.kind = "tools"
  /\ registry.found.key = get_pods
  /\ registry.found.at = Len(registry.log)
  /\ registry.found.id > Len(constructorLog)
  /\ Len(registry.tools) = Len(registerToolsOrder)

\* C19: list() returns every registered descriptor once, in registration
\* order, as its public summary; after a key was registered again the order
\* is that of the registrations whose descriptors are now held, the one that
\* overwrote standing where its own registration came.
C19_ListInRegistrationOrder ==
  registry.listing.kind # "none" =>
    LET held == HeldOf(registry.listing.kind, registry.listing.at)
        items == registry.listing.items
    IN /\ Len(items) = Len(held)
       /\ \A x \in 1..Len(items) :
            /\ x <= Len(held)
            /\ items[x].name = held[x].key
            /\ items[x].description = held[x].id
            /\ registry.listing.kind = "resources" => items[x].uri = <<held[x].key, "://">>

\* -------------------------------------------------------------------- SpecUri
\* The resource handlers' reading of a URI.  A URI scheme://s1/s2/... is its
\* scheme and the texts s1, s2, ... that the slashes after "scheme://"
\* separate; a text may be empty (k8s-pod:///a has the texts "", "a").
Uri(scheme, segments) == [scheme |-> scheme, segments |-> segments]

\* new URL(uri) for a scheme that is not http(s), ws(s), ftp or file: what
\* follows "//" up to the next slash is the host, the rest is the pathname
newURL(uri) ==
  [protocol |-> <<uri.scheme, ":">>,
   host |-> IF uri.segments = <<>> THEN "" ELSE Head(uri.segments),
   pathname |-> IF uri.segments = <<>> THEN <<>> ELSE Tail(uri.segments)]

\* url.pathname.split('/').filter(p => p)
pathParts(url) == SelectSeq(url.pathname, LAMBDA part : part # "")

\* the schemes whose handlers need coordinates, with the number they need
\* and the template their error names
resourceSchemes ==
  {"k8s-pod", "k8s-deployment", "k8s-service", "k8s-configmap", "k8s-secret",
   "k8s-namespace", "k8s-node", "k8s-logs", "k8s-manifest"}

requiredParts(scheme) ==
  IF scheme \in {"k8s-namespace", "k8s-node"} THEN 1
  ELSE IF scheme = "k8s-manifest" THEN 3
  ELSE 2

templateOf(scheme) ==
  IF scheme = "k8s-pod" THEN "k8s-pod://namespace/podname"
  ELSE IF scheme = "k8s-deployment" THEN "k8s-deployment://namespace/deploymentname"
  ELSE IF scheme = "k8s-service" THEN "k8s-service://namespace/servicename"
  ELSE IF scheme = "k8s-configmap" THEN "k8s-configmap://namespace/configmapname"
  ELSE IF scheme = "k8s-secret" THEN "k8s-secret://namespace/secretname"
  ELSE IF scheme = "k8s-namespace" THEN "k8s-namespace://namespacename"
  ELSE IF scheme = "k8s-node" THEN "k8s-node://nodename"
  ELSE IF scheme = "k8s-logs" THEN "k8s-logs://namespace/podname"
  ELSE "k8s-manifest://type/namespace/name"

\* the resource types handleManifestResource reads
manifestTypes == {"pod", "service", "deployment", "configmap", "secret"}

ReadResult(threw, error, template, coordinates, clusterCalled) ==
  [phase |-> "read", threw |-> threw, error |-> error, template |-> template,
   coordinates |-> coordinates, clusterCalled |-> clusterCalled]

\* handlePodResource ... handleManifestResource up to their call of the
\* cluster: the parts are counted, the coordinates taken from them, the
\* typed sub-client fetched (initialized says whether the connector is) and
\* the read issued
handleResource(uri, initialized) ==
  LET parts == pathParts(newURL(uri))
      k == requiredParts(uri.scheme)
      coordinates == SubSeq(parts, 1, k)
  IN IF Len(parts) < k
     THEN ReadResult(TRUE, "validation", templateOf(uri.scheme), <<>>, FALSE)
     ELSE IF ~initialized
     THEN ReadResult(TRUE, "not initialized", "", coordinates, FALSE)
     ELSE IF uri.scheme = "k8s-manifest" /\ coordinates[1] \notin manifestTypes
     THEN ReadResult(TRUE, "not supported", "", coordinates, FALSE)
     ELSE ReadResult(FALSE, "none", "", coordinates, TRUE)

SegmentTexts == {"default", "my-pod", "pod", ""}

InitUri ==
  /\ SecIdle /\ DispIdle /\ ExtIdle
  /\ evalOut = NoEval
  /\ \E scheme \in resourceSchemes, segments \in SeqsUpTo(SegmentTexts, MaxSegments),
        initialized \in BOOLEAN :
       evalIn = [phase |-> "called", uri |-> Uri(scheme, segments),
                 initialized |-> initialized]

\* one run of a resource handler up to its call of the cluster
HandleResource ==
  /\ evalOut = NoEval
  /\ evalOut' = handleResource(evalIn.uri, evalIn.initialized)
  /\ UNCHANGED <<now, policies, rateLimits, lastCall, checks, evalIn, transport, requests, extVars>>

NextUri == HandleResource

SpecUri == InitUri /\ [][NextUri]_vars

\* the non-empty segments of the URI read
SegmentsOf(uri) == SelectSeq(uri.segments, LAMBDA part : part # "")

\* C20: for an entity kind with k required coordinates, a URI with n >= k
\* non-empty segments is read with coordinate i = segment i
\* (k8s-pod://default/my-pod gives namespace default and name my-pod), and a
\* URI with fewer than k segments fails with a validation error that names
\* the expected template, before any call of the cluster.
C20_UriCoordinates ==
  evalOut.phase = "read" =>
    LET segments == SegmentsOf(evalIn.uri)
        k == requiredParts(evalIn.uri.scheme)
    IN /\ Len(segments) >= k =>
            /\ evalOut.error # "validation"
            /\ evalOut.coordinates = SubSeq(segments, 1, k)
       /\ Len(segments) < k =>
            /\ evalOut.threw
            /\ evalOut.error = "validation"
            /\ evalOut.template = templateOf(evalIn.uri.scheme)
            /\ ~evalOut.clusterCalled

\* C25: every health report that says healthy (the connector's healthCheck
\* with healthy=true, the server's healthCheck with status 'healthy') was
\* derived from a successful live list-namespaces call on an initialized
\* connector; when the connector is uninitialized or the live call fails
\* the report is unhealthy; the probe never throws.
C25_HealthyMeansLiveCall ==
  /\ connector.last.op = "healthCheck" =>
       LET report == connector.last.value
       IN /\ ~connector.last.threw
          /\ report.healthy <=> (connector.last.initialized /\ report.listed = "ok")
  /\ connector.last.op = "serverHealthCheck" =>
       LET report == connector.last.value
       IN /\ ~connector.last.threw
          /\ report.status \in {"healthy", "unhealthy"}
          /\ report.status = "healthy" <=>
               (connector.last.initialized /\ report.kubernetes.listed = "ok")

\* the connector calls that only read the session: the accessors and the two
\* health probes, which is all that the tool handlers other than switch_context
\* and set_namespace, the resource reads and the kubectl verbs other than
\* 'config use-context' call on the connector
readOnlyCalls == accessors \cup {"healthCheck", "serverHealthCheck"}

\* C31: the current namespace changes only when setCurrentNamespace succeeds,
\* the current context only by initialize() or switchContext, the initialized
\* flag only by initialize() or cleanup(); every other call of a handler on
\* the connector leaves context, namespace and flag as they were;
\* switchContext leaves the namespace and setCurrentNamespace the context.
C31_SessionMutatedOnlyBySwitches ==
  [][ LET c == connector
          d == connector'
          initialized == c.pc = "PROBING" /\ d.pc = "READY"
          switched == c.call = NoSessionCall /\ d.call.op = "switchContext"
          namespaceSet == /\ c.call.op = "setCurrentNamespace"
                          /\ d.last.op = "setCurrentNamespace"
                          /\ d.last.read /\ ~d.last.threw
      IN /\ d.currentNamespace # c.currentNamespace =>
              /\ namespaceSet
              /\ d.currentNamespace = c.call.arg
              /\ d.currentContext = c.currentContext
         /\ d.currentContext # c.currentContext =>
              /\ initialized \/ switched
              /\ d.currentNamespace = c.currentNamespace
         /\ d.connectionEstablished # c.connectionEstablished =>
              \/ initialized
              \/ d = connectorCleanup(c)
         /\ (d.last # c.last /\ d.last.op \in readOnlyCalls) =>
              /\ snapshot(d) = snapshot(c)
              /\ d.connectionEstablished = c.connectionEstablished
         /\ (c.call.op = "switchContext" \/ d.call.op = "switchContext") =>
              d.currentNamespace = c.currentNamespace
         /\ (c.call.op = "setCurrentNamespace" \/ d.call.op = "setCurrentNamespace") =>
              d.currentContext = c.currentContext ]_vars

\* an accessor has returned on a session whose context was switched to prod
\* and whose namespace was set to team-a
C31_Witness ==
  /\ connector.last.op = "getCoreV1Api"
  /\ ~connector.last.threw
  /\ connector.currentContext = "prod"
  /\ connector.currentNamespace = "team-a"

\* C33: when switchContext has failed because the probe of the new context
\* failed, the current context and the sub-clients are those the call found.
C33_FailedSwitchRestoresSession ==
  (connector.last.op = "switchContext" /\ connector.last.threw /\ connector.last.probed) =>
    /\ connector.last.after.context = connector.last.before.context
    /\ connector.last.after.clients = connector.last.before.clients

\* C34: when initialize() completes successfully, also with a configured
\* context that differs from the kubeconfig's current one, the current
\* context is one of the loaded contexts and the sub-clients, which the probe
\* has just used, were made for that context.
C34_InitializedContextIsProbed ==
  [][ (connector.pc = "PROBING" /\ connector'.pc = "READY") =>
        /\ connector'.currentContext \in connector'.contexts
        /\ connector'.clients = connector'.currentContext
        /\ connector'.clients = connector.clients ]_vars

\* the accessors that hand out the current context or a sub-client made for it
sessionGetters == typedGetters \cup {"getCurrentContext"}

\* C35: an accessor called while the probe of switchContext is awaited
\* returns the context name and the sub-clients the switch found, not those
\* of the target that has not been probed yet.
C35_NoUnprobedContextObserved ==
  [][ ( /\ connector.call.op = "switchContext"
        /\ connector'.call = connector.call
        /\ connector'.last # connector.last
        /\ connector'.last.op \in sessionGetters
        /\ ~connector'.last.threw ) =>
        connector'.last.value =
          IF connector'.last.op = "getCurrentContext"
          THEN connector.call.before.context
          ELSE connector.call.before.clients ]_vars

\* ----------------------------------------------------------------- SpecKubectl
\* The Command Translator (KubectlExecutor).  An argument is a text, read
\* character by character where the code does; undefined is what a missing
\* array element or a failed find gives.
undefined == <<"undefined">>

\* !v of a text or undefined
truthy(v) == v # undefined /\ v # <<>>

\* args[i] of JavaScript, i counted from 1 here
at(args, i) == IF i <= Len(args) THEN args[i] ELSE undefined

\* Array.prototype.find with the predicate given as the set of its matches
find(args, matching) ==
  IF \E i \in 1..Len(args) : args[i] \in matching
  THEN args[CHOOSE i \in 1..Len(args) :
              /\ args[i] \in matching
              /\ \A j \in 1..(i - 1) : args[j] \notin matching]
  ELSE undefined

\* String.prototype.includes of one character
includes(s, ch) == \E i \in 1..Len(s) : s[i] = ch

\* String.prototype.split on one character
RECURSIVE split(_, _)
split(s, sep) ==
  IF ~includes(s, sep) THEN <<s>>
  ELSE LET i == CHOOSE k \in 1..Len(s) :
                  s[k] = sep /\ \A j \in 1..(k - 1) : s[j] # sep
       IN <<SubSeq(s, 1, i - 1)>> \o split(SubSeq(s, i + 1, Len(s)), sep)

upperCase == <<"A","B","C","D","E","F","G","H","I","J","K","L","M",
               "N","O","P","Q","R","S","T","U","V","W","X","Y","Z">>
lowerCase == <<"a","b","c","d","e","f","g","h","i","j","k","l","m",
               "n","o","p","q","r","s","t","u","v","w","x","y","z">>

\* String.prototype.toLowerCase
toLowerCase(s) ==
  [i \in 1..Len(s) |->
     IF \E k \in 1..26 : upperCase[k] = s[i]
     THEN lowerCase[CHOOSE k \in 1..26 : upperCase[k] = s[i]]
     ELSE s[i]]

decimalDigits == <<"0","1","2","3","4","5","6","7","8","9">>
isDigit(ch) == \E k \in 1..10 : decimalDigits[k] = ch
digitOf(ch) == (CHOOSE k \in 1..10 : decimalDigits[k] = ch) - 1

NaN == [nan |-> TRUE, value |-> 0]
Number(n) == [nan |-> FALSE, value |-> n]

\* the value of the longest run of digits that starts s, after acc
RECURSIVE digitsValue(_, _)
digitsValue(s, acc) ==
  IF s = <<>> \/ ~isDigit(Head(s)) THEN acc
  ELSE digitsValue(Tail(s), 10 * acc + digitOf(Head(s)))

\* parseInt(s): an optional sign, then the digits that follow it up to the
\* first character that is not a digit; NaN when there is no digit there
parseInt(s) ==
  LET signed == s # <<>> /\ Head(s) \in {"-", "+"}
      body == IF signed THEN Tail(s) ELSE s
  IN IF body = <<>> \/ ~isDigit(Head(body)) THEN NaN
     ELSE IF signed /\ Head(s) = "-" THEN Number(0 - digitsValue(body, 0))
     ELSE Number(digitsValue(body, 0))

\* the texts the translator looks for
dash_n == <<"-","n">>
dash_dash_namespace == <<"-","-","n","a","m","e","s","p","a","c","e">>
namespace_eq == <<"-","-","n","a","m","e","s","p","a","c","e","=">>
replicas_eq == <<"-","-","r","e","p","l","i","c","a","s","=">>

\* KubectlExecutor.extractNamespace
extractNamespace(args) ==
  LET flagged == {i \in 1..Len(args) : args[i] \in {dash_n, dash_dash_namespace}}
      nsIndex == IF flagged = {} THEN 0
                 ELSE CHOOSE i \in flagged : \A j \in flagged : i <= j
      nsArg == find(args, {a \in {args[i] : i \in 1..Len(args)} :
                             startsWith(a, namespace_eq)})
  IN IF nsIndex # 0 /\ nsIndex + 1 <= Len(args) THEN args[nsIndex + 1]
     ELSE IF nsArg # undefined THEN at(split(nsArg, "="), 2)
     ELSE undefined

\* what a call of the cluster throws: an Error with a message, or an object
\* whose body property is absent, null, or an object that may carry a
\* message or a reason
Thrown(isError, body, message, reason) ==
  [isError |-> isError, body |-> body, message |-> message, reason |-> reason]

\* the Error a call returned, or the one it threw itself
Returned(message) == [threw |-> FALSE, message |-> message]
Raised(message) == [threw |-> TRUE, message |-> message]

\* KubernetesManager.handleKubernetesError
handleKubernetesError(error) ==
  IF error.isError THEN Returned(error.message)
  ELSE IF error.body = "object"
  THEN IF error.message # "" THEN Returned(error.message)
       ELSE IF error.reason # "" THEN Returned(error.reason)
       ELSE Returned("Unknown Kubernetes error")
  ELSE IF error.body = "null"
  THEN Raised("Cannot read properties of null (reading 'message')")
  ELSE Returned("Unknown error occurred")

\* KubernetesManager.ensureInitialized's error
notInitializedError == Thrown(TRUE, "absent", "Kubernetes manager not initialized", "")

\* an error text: a fixed text around the value interpolated into it
Message(prefix, subject, suffix) ==
  [prefix |-> prefix, subject |-> subject, suffix |-> suffix]
NoMessage == Message("", undefined, "")

\* KubectlResult; calls are the calls of the cluster the command issued
KubectlResult(success, output, error, exitCode, calls) ==
  [success |-> success, output |-> output, error |-> error,
   exitCode |-> exitCode, calls |-> calls]

Failure(error, calls) == KubectlResult(FALSE, <<>>, error, 1, calls)
Success(output, calls) == KubectlResult(TRUE, output, NoMessage, 0, calls)

\* a call of a typed sub-client (or of the connector's switchContext)
NoReplicas == NaN
ClusterCall(op, kind, name, ns, replicas) ==
  [op |-> op, kind |-> kind, name |-> name, namespace |-> ns, replicas |-> replicas]

\* a handler whose promise rejects with an Error of this message
Rejected(message, calls) == [rejected |-> TRUE, message |-> message, calls |-> calls]
IsRejected(r) == "rejected" \in DOMAIN r

\* the catch block of a verb handler: the failure it returns, unless
\* handleKubernetesError throws in it
caughtWith(prefix, error, calls) ==
  LET e == handleKubernetesError(error)
  IN IF e.threw THEN Rejected(e.message, calls)
     ELSE IF prefix = "" THEN Failure(Message(e.message, undefined, ""), calls)
     ELSE Failure(Message(prefix, undefined, e.message), calls)

caught(error, calls) == caughtWith("", error, calls)

\* the resource-type alias tables of the verbs' switch statements
tok_pods == <<"p","o","d","s">>
tok_pod == <<"p","o","d">>
tok_po == <<"p","o">>
tok_services == <<"s","e","r","v","i","c","e","s">>
tok_service == <<"s","e","r","v","i","c","e">>
tok_svc == <<"s","v","c">>
tok_deployments == <<"d","e","p","l","o","y","m","e","n","t","s">>
tok_deployment == <<"d","e","p","l","o","y","m","e","n","t">>
tok_deploy == <<"d","e","p","l","o","y">>
tok_namespaces == <<"n","a","m","e","s","p","a","c","e","s">>
tok_namespace == <<"n","a","m","e","s","p","a","c","e">>
tok_ns == <<"n","s">>
tok_nodes == <<"n","o","d","e","s">>
tok_node == <<"n","o","d","e">>
tok_no == <<"n","o">>

\* the kind a resource-type token selects in handleGetCommand
getKind(token) ==
  IF token \in {tok_pods, tok_pod, tok_po} THEN "Pod"
  ELSE IF token \in {tok_services, tok_service, tok_svc} THEN "Service"
  ELSE IF token \in {tok_deployments, tok_deployment, tok_deploy} THEN "Deployment"
  ELSE IF token \in {tok_namespaces, tok_namespace, tok_ns} THEN "Namespace"
  ELSE IF token \in {tok_nodes, tok_node, tok_no} THEN "Node"
  ELSE "none"

\* the kind a resource-type token selects in handleDeleteCommand
deleteKind(token) ==
  IF token \in {tok_pod, tok_pods} THEN "Pod"
  ELSE IF token \in {tok_service, tok_svc} THEN "Service"
  ELSE IF token \in {tok_deployment, tok_deploy} THEN "Deployment"
  ELSE "none"

namespacedKinds == {"Pod", "Service", "Deployment"}

\* the session the translator reads, and what the cluster answers to a call
Session(initialized, currentNamespace, currentContext) ==
  [initialized |-> initialized, currentNamespace |-> currentNamespace,
   currentContext |-> currentContext]

thrownBy(outcome) ==
  IF outcome = "error" THEN Thrown(TRUE, "absent", "HTTP request failed", "")
  ELSE IF outcome = "object" THEN Thrown(FALSE, "object", "", "")
  ELSE Thrown(FALSE, "null", "", "")

\* the result of awaiting the calls issued: the value built from the
\* answer, or the handler's catch block
awaited(outcome, output, calls) ==
  IF outcome = "ok" THEN Success(output, calls) ELSE caught(thrownBy(outcome), calls)

\* this.extractNamespace(args) || this.k8sManager.getCurrentNamespace()
namespaceOf(args, k8s) ==
  IF truthy(extractNamespace(args)) THEN extractNamespace(args) ELSE k8s.currentNamespace

dash_o == <<"-","o">>

\* KubectlExecutor.handleGetCommand
handleGetCommand(args, k8s, outcome) ==
  LET resourceType == at(args, 1)
      resourceName == at(args, 2)
      kind == getKind(toLowerCase(resourceType))
      call == ClusterCall(IF truthy(resourceName) THEN "read" ELSE "list", kind,
                          IF truthy(resourceName) THEN resourceName ELSE undefined,
                          IF kind \in namespacedKinds THEN namespaceOf(args, k8s)
                          ELSE undefined,
                          NoReplicas)
      isJson == \E i \in 1..Len(args) : args[i] = dash_o
      output == IF isJson \/ call.op = "read" THEN <<"json">> ELSE <<"table">>
  IN IF ~truthy(resourceType)
     THEN Failure(Message("Resource type required", undefined, ""), <<>>)
     ELSE IF ~k8s.initialized THEN caught(notInitializedError, <<>>)
     ELSE IF kind = "none"
     THEN Failure(Message("Resource type '", resourceType, "' not supported"), <<>>)
     ELSE awaited(outcome, output, <<call>>)

\* KubectlExecutor.handleDescribeCommand
handleDescribeCommand(args, k8s, outcome) ==
  LET resourceType == at(args, 1)
      resourceName == at(args, 2)
      getResult == handleGetCommand(
                     <<resourceType, resourceName>> \o SubSeq(args, 3, Len(args)),
                     k8s, outcome)
  IN IF ~truthy(resourceType) \/ ~truthy(resourceName)
     THEN Failure(Message("Resource type and name required", undefined, ""), <<>>)
     ELSE IF IsRejected(getResult)
     THEN caught(Thrown(TRUE, "absent", getResult.message, ""), getResult.calls)
     ELSE IF ~getResult.success THEN getResult
     ELSE Success(<<"Name:", resourceName, "Namespace:", namespaceOf(args, k8s),
                    getResult.output>>,
                  getResult.calls)

\* KubectlExecutor.handleDeleteCommand
handleDeleteCommand(args, k8s, outcome) ==
  LET resourceType == at(args, 1)
      resourceName == at(args, 2)
      kind == deleteKind(toLowerCase(resourceType))
      call == ClusterCall("delete", kind, resourceName, namespaceOf(args, k8s), NoReplicas)
  IN IF ~truthy(resourceType) \/ ~truthy(resourceName)
     THEN Failure(Message("Resource type and name required", undefined, ""), <<>>)
     ELSE IF ~k8s.initialized THEN caught(notInitializedError, <<>>)
     ELSE IF kind = "none"
     THEN Failure(Message("Delete not supported for resource type '", resourceType, "'"),
                  <<>>)
     ELSE awaited(outcome, <<resourceType, resourceName, "deleted">>, <<call>>)

\* KubectlExecutor.handleScaleCommand
handleScaleCommand(args, k8s, outcome) ==
  LET given == {args[i] : i \in 1..Len(args)}
      resourceArg == find(args, {a \in given : includes(a, "/")})
      replicasArg == find(args, {a \in given : startsWith(a, replicas_eq)})
      resourceType == at(split(resourceArg, "/"), 1)
      resourceName == at(split(resourceArg, "/"), 2)
      replicasText == at(split(replicasArg, "="), 2)
      replicas == parseInt(IF truthy(replicasText) THEN replicasText ELSE <<"1">>)
      call == ClusterCall("patchScale", "Deployment",
                          IF truthy(resourceName) THEN resourceName ELSE <<>>,
                          namespaceOf(args, k8s), replicas)
  IN IF ~truthy(resourceArg) \/ ~truthy(replicasArg)
     THEN Failure(Message("Resource and replicas required (e.g., deployment/myapp --replicas=3)",
                          undefined, ""), <<>>)
     ELSE IF replicas.nan
     THEN Failure(Message("Invalid replicas count", undefined, ""), <<>>)
     ELSE IF ~k8s.initialized THEN caught(notInitializedError, <<>>)
     ELSE IF toLowerCase(resourceType) \notin {tok_deployment, tok_deploy}
     THEN Failure(Message("Scale not supported for resource type '", resourceType, "'"),
                  <<>>)
     ELSE awaited(outcome, <<resourceType, resourceName, "scaled">>, <<call>>)

\* KubectlExecutor.handleTopCommand
handleTopCommand(args, k8s, outcome) ==
  LET resourceType == at(args, 1)
      token == toLowerCase(resourceType)
      call == IF token \in {tok_nodes, tok_node}
              THEN ClusterCall("metrics", "Node", undefined, undefined, NoReplicas)
              ELSE ClusterCall("metrics", "Pod", undefined, namespaceOf(args, k8s), NoReplicas)
      unavailable(error, calls) == caughtWith("Metrics not available: ", error, calls)
  IN IF ~truthy(resourceType)
     THEN Failure(Message("Resource type required (nodes or pods)", undefined, ""), <<>>)
     ELSE IF ~k8s.initialized THEN unavailable(notInitializedError, <<>>)
     ELSE IF token \notin {tok_nodes, tok_node, tok_pods, tok_pod}
     THEN Failure(Message("Top not supported for resource type '", resourceType, "'"), <<>>)
     ELSE IF outcome = "ok"
     THEN Success(<<"metrics not available (metrics-server required)">>, <<call>>)
     ELSE unavailable(thrownBy(outcome), <<call>>)

get_contexts == <<"g","e","t","-","c","o","n","t","e","x","t","s">>
current_context == <<"c","u","r","r","e","n","t","-","c","o","n","t","e","x","t">>
use_context == <<"u","s","e","-","c","o","n","t","e","x","t">>

\* KubectlExecutor.handleConfigCommand; switchContext probes the cluster
handleConfigCommand(args, k8s, outcome) ==
  LET subCommand == at(args, 1)
      contextName == at(args, 2)
      call == ClusterCall("switchContext", "Context", contextName, undefined, NoReplicas)
  IN IF subCommand = get_contexts
     THEN IF ~k8s.initialized THEN caught(notInitializedError, <<>>)
          ELSE Success(<<"contexts", k8s.currentContext>>, <<>>)
     ELSE IF subCommand = current_context
     THEN Success(<<IF k8s.currentContext # "" THEN k8s.currentContext
                    ELSE "No current context">>, <<>>)
     ELSE IF subCommand = use_context
     THEN IF ~truthy(contextName)
          THEN Failure(Message("Context name required", undefined, ""), <<>>)
          ELSE IF ~k8s.initialized THEN caught(notInitializedError, <<>>)
          ELSE awaited(outcome, <<"Switched to context", contextName>>, <<call>>)
     ELSE Failure(Message("Config subcommand '", subCommand, "' not supported"), <<>>)

\* KubernetesManager.getClusterInfo as the translator sees it: the three
\* reads it issues together; it wraps a failure into an Error of its own
getClusterInfoCalls ==
  <<ClusterCall("read", "ServiceAccount", <<"d","e","f","a","u","l","t">>,
                <<"d","e","f","a","u","l","t">>, NoReplicas),
    ClusterCall("list", "Namespace", undefined, undefined, NoReplicas),
    ClusterCall("list", "Node", undefined, undefined, NoReplicas)>>

\* KubectlExecutor.handleClusterInfoCommand and handleVersionCommand
handleClusterInfoCommand(k8s, outcome, output) ==
  IF ~k8s.initialized THEN caught(notInitializedError, <<>>)
  ELSE IF outcome = "ok" THEN Success(output, getClusterInfoCalls)
  ELSE caught(Thrown(TRUE, "absent",
                     IF thrownBy(outcome).isError THEN "Failed to get cluster info: HTTP request failed"
                     ELSE "Failed to get cluster info: undefined", ""),
              getClusterInfoCalls)

\* the verbs whose handlers only report that they are not implemented
notImplemented ==
  [create |-> "Create command not implemented - use apply instead",
   apply |-> "Apply command not implemented",
   patch |-> "Patch command not implemented",
   rollout |-> "Rollout command not implemented",
   logs |-> "Logs command not implemented - use pod logs tool instead",
   exec |-> "Exec command not implemented - use pod exec tool instead",
   port_forward |-> "Port-forward command not implemented",
   cp |-> "Copy command not implemented",
   api_versions |-> "API versions command not implemented",
   api_resources |-> "API resources command not implemented"]

notImplementedVerbs ==
  {"create", "apply", "patch", "rollout", "logs", "exec", "port-forward", "cp",
   "api-versions", "api-resources"}

fieldOf(command) ==
  IF command = "port-forward" THEN "port_forward"
  ELSE IF command = "api-versions" THEN "api_versions"
  ELSE IF command = "api-resources" THEN "api_resources"
  ELSE command

\* the verbs routeCommand has a case for
supportedVerbs ==
  {"get", "describe", "delete", "scale", "top", "config", "cluster-info", "version"}
    \cup notImplementedVerbs

\* KubectlExecutor.routeCommand with its default branch routed to get
routeCommand_defaultGet(command, args, k8s, outcome) ==
  handleGetCommand(args, k8s, outcome)

\* KubectlExecutor.routeCommand
routeCommand(command, args, k8s, outcome) ==
  IF command = "get" THEN handleGetCommand(args, k8s, outcome)
  ELSE IF command = "describe" THEN handleDescribeCommand(args, k8s, outcome)
  ELSE IF command = "delete" THEN handleDeleteCommand(args, k8s, outcome)
  ELSE IF command = "scale" THEN handleScaleCommand(args, k8s, outcome)
  ELSE IF command = "top" THEN handleTopCommand(args, k8s, outcome)
  ELSE IF command = "config" THEN handleConfigCommand(args, k8s, outcome)
  ELSE IF command = "cluster-info"
  THEN handleClusterInfoCommand(k8s, outcome, <<"Kubernetes control plane is running at">>)
  ELSE IF command = "version"
  THEN handleClusterInfoCommand(k8s, outcome, <<"Client Version: kubectl (simulated)">>)
  ELSE IF command \in notImplementedVerbs
  THEN Failure(Message(notImplemented[fieldOf(command)], undefined, ""), <<>>)
  ELSE Failure(Message("Command '", command, "' not supported"), <<>>)

Executed(command, args, result, threw) ==
  [phase |-> "executed", command |-> command, args |-> args,
   result |-> result, threw |-> threw]

\* KubectlExecutor.execute without its try/catch
execute_noCatch(command, args, k8s, outcome) ==
  LET result == routeCommand(command, args, k8s, outcome)
  IN Executed(command, args, result, IsRejected(result))

\* KubectlExecutor.execute: the result returned, and whether the call threw
execute(command, args, k8s, outcome) ==
  LET result == routeCommand(command, args, k8s, outcome)
  IN IF IsRejected(result)
     THEN Executed(command, args,
                   Failure(Message("kubectl command failed: ", undefined, result.message),
                           result.calls),
                   FALSE)
     ELSE Executed(command, args, result, FALSE)

\* the commands executed: a verb of the get family with a resource type (or
\* a config subcommand) first and up to MaxArgs - 1 further arguments, or
\* scale with up to MaxArgs arguments
MaxArgs == 3

tok_Pods == <<"P","o","d","s">>
tok_cronjobs == <<"c","r","o","n","j","o","b","s">>
tok_web == <<"w","e","b">>
tok_team_a == <<"t","e","a","m","-","a">>
tok_default == <<"d","e","f","a","u","l","t">>
namespace_eq_team_a == namespace_eq \o tok_team_a

KubectlVerbs == {"get", "describe", "delete", "top", "config", "cluster-info", "logs", "restart"}
FirstTokens ==
  {tok_pods, tok_pod, tok_po, tok_services, tok_service, tok_svc,
   tok_deployments, tok_deployment, tok_deploy, tok_nodes, tok_Pods,
   tok_cronjobs, use_context}
RestTokens == {tok_web, dash_n, tok_team_a, namespace_eq_team_a}
ScaleTokens ==
  {tok_deploy \o <<"/">> \o tok_web, tok_pod \o <<"/">> \o tok_web, tok_web,
   replicas_eq \o <<"3">>, replicas_eq, replicas_eq \o <<"3","a","b","c">>,
   replicas_eq \o <<"2",".","5">>, replicas_eq \o <<"a","b","c">>}
ClusterOutcomes == {"ok", "error", "object", "null-body"}

KubectlCommands ==
  {<<command, args>> : command \in KubectlVerbs,
                       args \in {<<>>} \cup
                                {<<first>> \o rest : first \in FirstTokens,
                                                     rest \in SeqsUpTo(RestTokens, MaxArgs - 1)}}
    \cup {<<"scale", args>> : args \in SeqsUpTo(ScaleTokens, MaxArgs)}

InitKubectl ==
  /\ SecIdle /\ DispIdle /\ ExtIdle
  /\ evalOut = NoEval
  /\ \E c \in KubectlCommands, initialized \in BOOLEAN, outcome \in ClusterOutcomes :
       evalIn = [phase |-> "called", command |-> c[1], args |-> c[2],
                 k8s |-> Session(initialized, tok_default, "dev"),
                 outcome |-> outcome]

\* one call of KubectlExecutor.execute
Execute ==
  /\ evalOut = NoEval
  /\ evalOut' = execute(evalIn.command, evalIn.args, evalIn.k8s, evalIn.outcome)
  /\ UNCHANGED <<now, policies, rateLimits, lastCall, checks, evalIn, transport, requests, extVars>>

NextKubectl == Execute

SpecKubectl == InitKubectl /\ [][NextKubectl]_vars

\* the namespace the arguments name with -n NS, --namespace NS or
\* --namespace=NS, undefined when they name none
FlaggedNamespace(args) ==
  IF \E i \in 1..(Len(args) - 1) : args[i] \in {dash_n, dash_dash_namespace}
  THEN args[1 + CHOOSE i \in 1..(Len(args) - 1) :
                  /\ args[i] \in {dash_n, dash_dash_namespace}
                  /\ \A j \in 1..(i - 1) : args[j] \notin {dash_n, dash_dash_namespace}]
  ELSE IF \E i \in 1..Len(args) : startsWith(args[i], namespace_eq)
  THEN LET a == args[CHOOSE i \in 1..Len(args) :
                       /\ startsWith(args[i], namespace_eq)
                       /\ \A j \in 1..(i - 1) : ~startsWith(args[j], namespace_eq)]
       IN SubSeq(a, Len(namespace_eq) + 1, Len(a))
  ELSE undefined

\* the arguments are a resource type followed only by a namespace flag
TypeThenNamespaceOnly(args) ==
  \/ Len(args) = 3 /\ args[2] \in {dash_n, dash_dash_namespace}
  \/ Len(args) = 2 /\ startsWith(args[2], namespace_eq)

\* C21: for get the resource name is optional and its absence means list:
\* with the arguments a resource type followed only by a namespace flag and
\* its value (['pods', '-n', NS]) the translator issues the list call for
\* that type in namespace NS and never a single-resource read; the namespace
\* of every call is the one of -n / --namespace / --namespace= when present
\* and otherwise the session's current namespace.
C21_GetWithoutNameLists ==
  (/\ evalOut.phase = "executed"
   /\ evalIn.command = "get"
   /\ evalIn.k8s.initialized
   /\ evalIn.args # <<>>
   /\ getKind(toLowerCase(evalIn.args[1])) \in namespacedKinds) =>
    LET args == evalIn.args
        flagged == FlaggedNamespace(args)
        expected == IF truthy(flagged) THEN flagged ELSE evalIn.k8s.currentNamespace
        calls == evalOut.result.calls
    IN /\ Len(calls) = 1
       /\ calls[1].namespace = expected
       /\ TypeThenNamespaceOnly(args) =>
            /\ calls[1].op = "list"
            /\ calls[1].kind = getKind(toLowerCase(args[1]))
            /\ calls[1].name = undefined

\* C22: get, describe and delete match the resource-type token
\* case-insensitively against one alias table: every alias get accepts for
\* Pod, Service and Deployment is accepted by describe and delete for the
\* same kind, and an unrecognized token fails with an unsupported-resource
\* error without any call of the cluster.
C22_OneAliasTable ==
  (/\ evalOut.phase = "executed"
   /\ evalIn.command \in {"get", "describe", "delete"}
   /\ evalIn.k8s.initialized
   /\ Len(evalIn.args) >= 2) =>
    LET kind == getKind(toLowerCase(evalIn.args[1]))
        result == evalOut.result
    IN /\ kind \in namespacedKinds =>
            /\ Len(result.calls) = 1
            /\ result.calls[1].kind = kind
            /\ result.success <=> evalIn.outcome = "ok"
       /\ kind = "none" =>
            /\ ~result.success
            /\ result.calls = <<>>
            /\ result.error.subject = evalIn.args[1]
            /\ result.error.suffix \in {"' not supported", "'"}

\* the text is a decimal integer: an optional sign and then digits only
IsIntegerText(s) ==
  LET body == IF s # <<>> /\ Head(s) \in {"-", "+"} THEN Tail(s) ELSE s
  IN body # <<>> /\ \A i \in 1..Len(body) : isDigit(body[i])

\* C23: scale fails with a validation error and issues no scale/patch call
\* whenever the type/name token or the --replicas=N token is missing, or the
\* text after '--replicas=' is not an integer (empty, '3abc', '2.5'); when it
\* issues the patch, the replica count sent is the integer N given.
C23_ScaleValidatesReplicas ==
  (evalOut.phase = "executed" /\ evalIn.command = "scale") =>
    LET args == evalIn.args
        given == {args[i] : i \in 1..Len(args)}
        resourceArg == find(args, {a \in given : includes(a, "/")})
        replicasArg == find(args, {a \in given : startsWith(a, replicas_eq)})
        text == SubSeq(replicasArg, Len(replicas_eq) + 1, Len(replicasArg))
        result == evalOut.result
    IN /\ (resourceArg = undefined \/ replicasArg = undefined) =>
            ~result.success /\ result.calls = <<>>
       /\ (replicasArg # undefined /\ ~IsIntegerText(text)) =>
            ~result.success /\ result.calls = <<>>
       /\ result.calls # <<>> =>
            /\ IsIntegerText(text)
            /\ result.calls[1].replicas = Number(digitsValue(text, 0))

\* the fixed part of an error text is not empty
NonEmptyMessage(m) == m.prefix # "" \/ m.suffix # ""

\* C24: execute(verb, args) never throws: for a verb outside the supported
\* set it returns success=false, exitCode=1 and a message naming the verb,
\* without any call of the cluster, and for a failure inside a supported
\* verb it returns success=false with a non-empty error message.
C24_ExecuteNeverThrows ==
  evalOut.phase = "executed" =>
    LET result == evalOut.result
    IN /\ ~evalOut.threw
       /\ evalIn.command \notin supportedVerbs =>
            /\ ~result.success
            /\ result.exitCode = 1
            /\ result.error.subject = evalIn.command
            /\ result.calls = <<>>
       /\ (evalIn.command \in supportedVerbs /\ ~result.success) =>
            NonEmptyMessage(result.error)

\* a supported verb whose call of the cluster failed with an object that
\* handleKubernetesError cannot read: the handler's catch block throws and
\* execute reports the failure
C24_Witness ==
  /\ evalOut.phase = "executed"
  /\ evalIn.command \in supportedVerbs
  /\ evalIn.outcome = "null-body"
  /\ evalOut.result.calls # <<>>
  /\ ~evalOut.threw
  /\ ~evalOut.result.success
  /\ evalOut.result.error.prefix = "kubectl command failed: "

\* ------------------------------------------------------------------ SpecConfig
\* The configuration read from the environment and the transport start()
\* serves.  An environment variable is <<>> when unset and <<value>> when set.
Unset == <<>>
Set(value) == <<value>>

\* the values ConfigSchema.server.transport accepts
transportEnum == {"stdio", "sse"}

\* z.enum(transportEnum).default('stdio') on process.env['MCP_TRANSPORT']
parseTransport(variable) ==
  IF variable = Unset THEN [valid |-> TRUE, value |-> "stdio"]
  ELSE IF variable[1] \in transportEnum THEN [valid |-> TRUE, value |-> variable[1]]
  ELSE [valid |-> FALSE, value |-> "none"]

defaultPort == 3000
minPort == 1
maxPort == 65535

\* z.number().min(1).max(65535).default(3000) on
\* process.env['PORT'] ? parseInt(process.env['PORT'], 10) : undefined
parsePort(variable) ==
  IF variable = Unset \/ variable[1] = <<>> THEN [valid |-> TRUE, value |-> defaultPort]
  ELSE LET n == parseInt(variable[1])
       IN IF n.nan \/ n.value < minPort \/ n.value > maxPort
          THEN [valid |-> FALSE, value |-> 0]
          ELSE [valid |-> TRUE, value |-> n.value]

\* process.env[...] === 'true'
isTrue(variable) == variable = Set("true")

\* loadConfig(): the server section of the configuration, or the error that
\* ConfigSchema.parse throws
loadConfig(env) ==
  LET transportRead == parseTransport(env.MCP_TRANSPORT)
      port == parsePort(env.PORT)
  IN IF transportRead.valid /\ port.valid
     THEN [phase |-> "loaded", threw |-> FALSE,
           server |-> [transport |-> transportRead.value, port |-> port.value,
                       enableMetrics |-> isTrue(env.ENABLE_METRICS)],
           serving |-> "none", initialized |-> FALSE, metricsStarted |-> FALSE]
     ELSE [phase |-> "loaded", threw |-> TRUE,
           server |-> [transport |-> "none", port |-> 0, enableMetrics |-> FALSE],
           serving |-> "none", initialized |-> FALSE, metricsStarted |-> FALSE]

\* MCPKubernetesServer.start() on a loaded configuration; initializeOk says
\* whether kubernetesManager.initialize() succeeds
start(loaded, initializeOk) ==
  IF loaded.server.transport # "http-chunked" /\ ~initializeOk
  THEN [loaded EXCEPT !.phase = "started", !.threw = TRUE]
  ELSE [loaded EXCEPT
          !.phase = "started",
          !.initialized = loaded.server.transport # "http-chunked",
          !.metricsStarted = loaded.server.enableMetrics,
          !.serving = IF loaded.server.transport = "sse" THEN "sse"
                      ELSE IF loaded.server.transport = "http-chunked"
                      THEN "POST /call-tool-chunked"
                      ELSE "stdio"]

EnvTransports == {Unset, Set("stdio"), Set("sse"), Set("http-chunked"), Set("websocket")}
EnvPorts ==
  {Unset, Set(<<"8","0","8","0">>), Set(<<"0">>), Set(<<"7","0","0","0","0">>),
   Set(<<"a","b","c">>)}
EnvFlags == {Unset, Set("true"), Set("false")}

InitConfig ==
  /\ SecIdle /\ DispIdle /\ ExtIdle
  /\ evalOut = NoEval
  /\ \E t \in EnvTransports, p \in EnvPorts, m \in EnvFlags :
       evalIn = [phase |-> "called",
                 env |-> [MCP_TRANSPORT |-> t, PORT |-> p, ENABLE_METRICS |-> m]]

\* index: const config = loadConfig()
LoadConfig ==
  /\ evalOut = NoEval
  /\ evalOut' = loadConfig(evalIn.env)
  /\ UNCHANGED <<now, policies, rateLimits, lastCall, checks, evalIn, transport, requests, extVars>>

\* index: new MCPKubernetesServer(config).start()
Start(initializeOk) ==
  /\ evalOut.phase = "loaded"
  /\ ~evalOut.threw
  /\ evalOut' = start(evalOut, initializeOk)
  /\ UNCHANGED <<now, policies, rateLimits, lastCall, checks, evalIn, transport, requests, extVars>>

NextConfig ==
  \/ LoadConfig
  \/ \E initializeOk \in BOOLEAN : Start(initializeOk)

SpecConfig == InitConfig /\ [][NextConfig]_vars

\* C26: MCP_TRANSPORT=http-chunked is an accepted configuration: loadConfig
\* validates it (the other variables being valid or unset) and start() then
\* serves POST /call-tool-chunked instead of connecting the stdio or SSE
\* transport.
C26_ChunkedTransportAccepted ==
  (/\ evalIn.phase = "called"
   /\ evalIn.env.MCP_TRANSPORT = Set("http-chunked")
   /\ parsePort(evalIn.env.PORT).valid) =>
    /\ evalOut.phase = "loaded" =>
         ~evalOut.threw /\ evalOut.server.transport = "http-chunked"
    /\ evalOut.phase = "started" =>
         ~evalOut.threw /\ evalOut.serving = "POST /call-tool-chunked"

\* ------------------------------------------------------------------- SpecTable
\* Table output.  A header and a cell are texts; the table is one text whose
\* lines are separated by "\n".

\* Math.max of a non-empty set of numbers
Max(S) == CHOOSE x \in S : \A y \in S : y <= x

\* String.prototype.padEnd with spaces
padEnd(s, width) ==
  IF Len(s) >= width THEN s ELSE s \o [i \in 1..(width - Len(s)) |-> " "]

\* Array.prototype.join
RECURSIVE join(_, _)
join(texts, sep) ==
  IF texts = <<>> THEN <<>>
  ELSE IF Len(texts) = 1 THEN texts[1]
  ELSE texts[1] \o sep \o join(Tail(texts), sep)

minColumnWidth == 8

\* formatTable's columnWidths without the minimum of 8
columnWidths_noMinimum(headers, rows) ==
  [i \in 1..Len(headers) |->
     Max({Len(headers[i])} \cup
         {IF i <= Len(rows[r]) THEN Len(rows[r][i]) ELSE 0 : r \in 1..Len(rows)})]

\* formatTable's columnWidths
columnWidths(headers, rows) ==
  [i \in 1..Len(headers) |->
     Max({minColumnWidth,
          Max({Len(headers[i])} \cup
              {IF i <= Len(rows[r]) THEN Len(rows[r][i]) ELSE 0 : r \in 1..Len(rows)})})]

\* KubectlExecutor.formatTable
formatTable(headers, rows) ==
  LET widths == columnWidths(headers, rows)
      widthOf(i) == IF i <= Len(widths) THEN widths[i] ELSE 0
      headerRow == join([i \in 1..Len(headers) |-> padEnd(headers[i], widthOf(i))],
                        <<" ", " ">>)
      dataRows == [r \in 1..Len(rows) |->
                     join([i \in 1..Len(rows[r]) |-> padEnd(rows[r][i], widthOf(i))],
                          <<" ", " ">>)]
  IN join(<<headerRow>> \o dataRows, <<"\n">>)

\* the tables formatted: up to MaxColumns columns and up to MaxRows rows,
\* every row with one cell per column as formatKubernetesOutput builds them
MaxColumns == 2
MaxRows == 2

TableHeaders == {<<"N","A","M","E">>, <<"N","A","M","E","S","P","A","C","E","S">>}
TableCells == {tok_web, <<"w","e","b","-","7","d","9","f","5">>}

InitTable ==
  /\ SecIdle /\ DispIdle /\ ExtIdle
  /\ evalOut = NoEval
  /\ \E n \in 1..MaxColumns :
       \E headers \in [1..n -> TableHeaders], rows \in SeqsUpTo([1..n -> TableCells], MaxRows) :
         evalIn = [phase |-> "called", headers |-> headers, rows |-> rows]

\* one call of formatTable
FormatTable ==
  /\ evalOut = NoEval
  /\ evalOut' = [phase |-> "formatted", table |-> formatTable(evalIn.headers, evalIn.rows)]
  /\ UNCHANGED <<now, policies, rateLimits, lastCall, checks, evalIn, transport, requests, extVars>>

NextTable == FormatTable

SpecTable == InitTable /\ [][NextTable]_vars

\* the width the claim gives column i
ClaimedWidth(headers, rows, i) ==
  Max({Len(headers[i]), 8} \cup {Len(rows[r][i]) : r \in 1..Len(rows)})

\* the number of characters before column i in a line
RECURSIVE ColumnOffset(_, _, _)
ColumnOffset(headers, rows, i) ==
  IF i = 1 THEN 0
  ELSE ColumnOffset(headers, rows, i - 1) + ClaimedWidth(headers, rows, i - 1) + 2

\* line holds the cells: cell i starts at its column's offset, is followed
\* by spaces up to the column's width, and two spaces separate it from the
\* next column
LineHolds(line, cells, headers, rows) ==
  LET n == Len(headers)
  IN /\ Len(line) = ColumnOffset(headers, rows, n) + ClaimedWidth(headers, rows, n)
     /\ \A i \in 1..n :
          LET from == ColumnOffset(headers, rows, i)
              w == ClaimedWidth(headers, rows, i)
          IN /\ SubSeq(line, from + 1, from + Len(cells[i])) = cells[i]
             /\ \A k \in (from + Len(cells[i]) + 1)..(from + w) : line[k] = " "
             /\ i < n => line[from + w + 1] = " " /\ line[from + w + 2] = " "

\* C27: the table for headers H and rows R has the header row first and then
\* one line per row in order; column i is max(len(H[i]), the longest cell of
\* column i, 8) wide; every cell is padded with spaces to its column's width
\* and adjacent columns are separated by exactly two spaces.
C27_TableLayout ==
  evalOut.phase = "formatted" =>
    LET lines == split(evalOut.table, "\n")
    IN /\ Len(lines) = 1 + Len(evalIn.rows)
       /\ LineHolds(lines[1], evalIn.headers, evalIn.headers, evalIn.rows)
       /\ \A r \in 1..Len(evalIn.rows) :
            LineHolds(lines[r + 1], evalIn.rows[r], evalIn.headers, evalIn.rows)

\* a table of two columns and two rows in which one column takes the
\* minimum width and the other the width of its longest cell
C27_Witness ==
  /\ evalOut.phase = "formatted"
  /\ Len(evalIn.headers) = 2
  /\ Len(evalIn.rows) = 2
  /\ ClaimedWidth(evalIn.headers, evalIn.rows, 1) = 8
  /\ Len(evalIn.headers[1]) < 8
  /\ ClaimedWidth(evalIn.headers, evalIn.rows, 2) = 9
  /\ Len(evalIn.headers[2]) < 9

\* --------------------------------------------------------------------- SpecAge
\* Age formatting.  A creation timestamp is missing, a Date, or a string
\* that new Date() parses (or does not); times are in milliseconds.
Timestamp(kind, time) == [kind |-> kind, time |-> time]

\* new Date(creationTimestamp).getTime(): NaN for a string that is no date
getTime(creationTimestamp) ==
  IF creationTimestamp.kind = "invalid" THEN NaN ELSE Number(creationTimestamp.time)

\* Number.prototype.toString of an integer
RECURSIVE digitsOf(_)
digitsOf(n) ==
  IF n < 10 THEN <<decimalDigits[n + 1]>>
  ELSE digitsOf(n \div 10) \o <<decimalDigits[(n % 10) + 1]>>

toString(n) == IF n < 0 THEN <<"-">> \o digitsOf(0 - n) ELSE digitsOf(n)

msPerMinute == 60000
minutesPerHour == 60
hoursPerDay == 24

unknown == <<"u","n","k","n","o","w","n">>
NaNd == <<"N","a","N","d">>

\* KubectlExecutor.getAge with Math.round in place of Math.floor
getAge_rounded(creationTimestamp, nowMs) ==
  LET created == getTime(creationTimestamp)
      diffMins == (nowMs - created.value + (msPerMinute \div 2)) \div msPerMinute
      diffHours == (diffMins + (minutesPerHour \div 2)) \div minutesPerHour
      diffDays == (diffHours + (hoursPerDay \div 2)) \div hoursPerDay
  IN IF creationTimestamp.kind = "missing" THEN unknown
     ELSE IF created.nan THEN NaNd
     ELSE IF diffMins < minutesPerHour THEN toString(diffMins) \o <<"m">>
     ELSE IF diffHours < hoursPerDay THEN toString(diffHours) \o <<"h">>
     ELSE toString(diffDays) \o <<"d">>

\* KubectlExecutor.getAge; every comparison with NaN is false, so a
\* creation time that is NaN falls through to the days
getAge(creationTimestamp, nowMs) ==
  LET created == getTime(creationTimestamp)
      diffMins == (nowMs - created.value) \div msPerMinute
      diffHours == diffMins \div minutesPerHour
      diffDays == diffHours \div hoursPerDay
  IN IF creationTimestamp.kind = "missing" THEN unknown
     ELSE IF created.nan THEN NaNd
     ELSE IF diffMins < minutesPerHour THEN toString(diffMins) \o <<"m">>
     ELSE IF diffHours < hoursPerDay THEN toString(diffHours) \o <<"h">>
     ELSE toString(diffDays) \o <<"d">>

\* ToolManager.getAge: a Date is taken as it is, a string is parsed
toolGetAge(creationTimestamp, nowMs) ==
  LET created == IF creationTimestamp.kind = "Date" THEN Number(creationTimestamp.time)
                 ELSE getTime(creationTimestamp)
      diffMins == (nowMs - created.value) \div msPerMinute
      diffHours == diffMins \div minutesPerHour
      diffDays == diffHours \div hoursPerDay
  IN IF creationTimestamp.kind = "missing" THEN unknown
     ELSE IF created.nan THEN NaNd
     ELSE IF diffMins < minutesPerHour THEN toString(diffMins) \o <<"m">>
     ELSE IF diffHours < hoursPerDay THEN toString(diffHours) \o <<"h">>
     ELSE toString(diffDays) \o <<"d">>

\* the ages formatted: creation up to SkewMinutes after and up to
\* MaxAgeMinutes before the call, at the start and the end of a minute
MaxAgeMinutes == 3000
SkewMinutes == 2

AgeTimestamps == {Timestamp(kind, 0) : kind \in {"string", "Date", "missing", "invalid"}}
AgeNows ==
  {m * msPerMinute + r :
     m \in (0 - SkewMinutes)..MaxAgeMinutes, r \in {0, msPerMinute - 1}}

NoAge == <<>>

InitAge ==
  /\ SecIdle /\ DispIdle /\ ExtIdle
  /\ evalOut = [phase |-> "none", kubectl |-> NoAge, tool |-> NoAge]
  /\ \E creationTimestamp \in AgeTimestamps, nowMs \in AgeNows :
       evalIn = [phase |-> "called", creationTimestamp |-> creationTimestamp,
                 nowMs |-> nowMs]

\* the translator formats the age
GetAge ==
  /\ evalOut.kubectl = NoAge
  /\ evalOut' = [evalOut EXCEPT !.phase = "aged",
                                !.kubectl = getAge(evalIn.creationTimestamp, evalIn.nowMs)]
  /\ UNCHANGED <<now, policies, rateLimits, lastCall, checks, evalIn, transport, requests, extVars>>

\* the tool registry formats the age
ToolGetAge ==
  /\ evalOut.tool = NoAge
  /\ evalOut' = [evalOut EXCEPT !.phase = "aged",
                                !.tool = toolGetAge(evalIn.creationTimestamp, evalIn.nowMs)]
  /\ UNCHANGED <<now, policies, rateLimits, lastCall, checks, evalIn, transport, requests, extVars>>

NextAge == GetAge \/ ToolGetAge

SpecAge == InitAge /\ [][NextAge]_vars

\* the text the claim gives an elapsed time of m whole minutes
ClaimedAge(m) ==
  IF m < 60 THEN toString(m) \o <<"m">>
  ELSE IF m \div 60 < 24 THEN toString(m \div 60) \o <<"h">>
  ELSE toString((m \div 60) \div 24) \o <<"d">>

\* C28: an elapsed time of m whole minutes (floor) is formatted '<m>m' if
\* m < 60, else '<floor(m/60)>h' if floor(m/60) < 24, else
\* '<floor(floor(m/60)/24)>d', always flooring and never rounding; the
\* translator's and the tool registry's age functions return the same text
\* for every timestamp.
C28_AgeFormat ==
  evalOut.phase = "aged" =>
    LET m == (evalIn.nowMs - evalIn.creationTimestamp.time) \div 60000
        dated == evalIn.creationTimestamp.kind \in {"string", "Date"}
    IN /\ (dated /\ evalOut.kubectl # NoAge) => evalOut.kubectl = ClaimedAge(m)
       /\ (dated /\ evalOut.tool # NoAge) => evalOut.tool = ClaimedAge(m)
       /\ (evalOut.kubectl # NoAge /\ evalOut.tool # NoAge) => evalOut.kubectl = evalOut.tool

\* both functions have formatted an age of 91 minutes less one millisecond,
\* which rounds to 2h and floors to 1h
C28_Witness ==
  /\ evalOut.phase = "aged"
  /\ evalIn.creationTimestamp.kind = "string"
  /\ evalIn.nowMs - evalIn.creationTimestamp.time = 91 * 60000 - 1
  /\ evalOut.kubectl = <<"1","h">>
  /\ evalOut.tool = <<"1","h">>

\* ----------------------------------------------------------------- SpecMetrics
\* The MetricsManager.  Metric names, label keys and label values are texts;
\* a labels object is the sequence of its entries in insertion order, empty
\* for {} and for undefined alike (both take the same branches); a timer of
\* setInterval is a number, 0 standing for null.
Label(key, value) == [key |-> key, value |-> value]
NoLabels == <<>>

\* the position of a lowercase letter in the alphabet
letterIndex(ch) == CHOOSE k \in 1..26 : lowerCase[k] = ch

\* String.prototype.localeCompare on texts of lowercase letters
RECURSIVE localeCompare(_, _)
localeCompare(s, t) ==
  IF s = <<>> /\ t = <<>> THEN 0
  ELSE IF s = <<>> THEN 0 - 1
  ELSE IF t = <<>> THEN 1
  ELSE IF Head(s) = Head(t) THEN localeCompare(Tail(s), Tail(t))
  ELSE IF letterIndex(Head(s)) < letterIndex(Head(t)) THEN 0 - 1
  ELSE 1

\* Array.prototype.sort by entry key; the sort is stable
RECURSIVE insertEntry(_, _)
insertEntry(sorted, entry) ==
  IF sorted = <<>> THEN <<entry>>
  ELSE IF localeCompare(entry.key, Head(sorted).key) < 0 THEN <<entry>> \o sorted
  ELSE <<Head(sorted)>> \o insertEntry(Tail(sorted), entry)

RECURSIVE sortEntries(_)
sortEntries(entries) ==
  IF entries = <<>> THEN <<>>
  ELSE insertEntry(sortEntries(SubSeq(entries, 1, Len(entries) - 1)), entries[Len(entries)])

\* MetricsManager.getMetricKey: name, or name{k="v",...} with the labels
\* sorted by key
getMetricKey(name, labels) ==
  IF labels = NoLabels THEN name
  ELSE LET sorted == sortEntries(labels)
           labelString ==
             join([i \in 1..Len(sorted) |->
                     sorted[i].key \o <<"=", "\"">> \o sorted[i].value \o <<"\"">>],
                  <<",">>)
       IN name \o <<"{">> \o labelString \o <<"}">>

Metric(name, value, timestamp, labels) ==
  [name |-> name, value |-> value, timestamp |-> timestamp, labels |-> labels]
NoMetric == Metric(<<>>, 0, 0, NoLabels)

\* what getMetric returned, for which request
Got(asked, name, labels, defined, metric) ==
  [asked |-> asked, name |-> name, labels |-> labels, defined |-> defined, metric |-> metric]
NoGot == Got(FALSE, <<>>, NoLabels, FALSE, NoMetric)

\* MetricsManager.startMetricsCollection: setInterval makes a new timer and
\* intervalId is assigned, whatever it held
startMetricsCollection(m) ==
  [m EXCEPT !.created = @ + 1,
            !.timers = @ \cup {m.created + 1},
            !.intervalId = m.created + 1]

\* new MetricsManager(config): enabled is config.monitoring.prometheusMetrics.
\* created counts the timers made so far, timers holds those still scheduled,
\* counted is the number of incrementCounter calls per name and label set
\* since the map was last cleared.
newMetricsManager(enabled) ==
  LET fresh == [pc |-> "constructed", enabled |-> enabled, intervalId |-> 0,
                timers |-> {}, created |-> 0, metrics |-> EmptyMap,
                counted |-> EmptyMap, ops |-> 0, lastOp |-> "constructor", got |-> NoGot]
  IN IF enabled THEN startMetricsCollection(fresh) ELSE fresh

\* MetricsManager.cleanupOldMetrics at time t
oneHourMs == 60 * 60 * 1000
cleanupOldMetrics(metrics, t) ==
  LET kept == {key \in DOMAIN metrics : ~(metrics[key].timestamp < t - oneHourMs)}
  IN [key \in kept |-> metrics[key]]

\* MetricsManager.recordMetric at time t: the metric is filed under
\* `${name}_${Date.now()}`
recordMetric(m, name, value, labels, t) ==
  IF ~m.enabled THEN m
  ELSE [m EXCEPT !.metrics =
          cleanupOldMetrics(
            MapSet(m.metrics, name \o <<"_">> \o toString(t), Metric(name, value, t, labels)), t)]

\* MetricsManager.start
metricsManagerStart(m) ==
  IF ~m.enabled THEN m ELSE startMetricsCollection(m)

\* MetricsManager.stop: clearInterval of the timer held, if any, then
\* metrics.clear()
metricsManagerStop(m) ==
  [m EXCEPT !.timers = IF m.intervalId # 0 THEN @ \ {m.intervalId} ELSE @,
            !.intervalId = 0,
            !.metrics = EmptyMap]

\* MetricsManager.incrementCounter at time t
incrementCounter(m, name, labels, t) ==
  LET key == getMetricKey(name, labels)
  IN IF key \in DOMAIN m.metrics
     THEN [m EXCEPT !.metrics[key].value = @ + 1, !.metrics[key].timestamp = t]
     ELSE recordMetric(m, name, 1, labels, t)

\* MetricsManager.recordGauge at time t
recordGauge(m, name, value, labels, t) ==
  [m EXCEPT !.metrics = MapSet(@, getMetricKey(name, labels), Metric(name, value, t, labels))]

\* MetricsManager.getMetric
getMetric(m, name, labels) ==
  LET key == getMetricKey(name, labels)
  IN IF key \in DOMAIN m.metrics
     THEN Got(TRUE, name, labels, TRUE, m.metrics[key])
     ELSE Got(TRUE, name, labels, FALSE, NoMetric)

\* MetricsManager.clearMetrics
clearMetrics(m) == [m EXCEPT !.metrics = EmptyMap]

mcp_server_uptime_seconds == <<"m","c","p","_","s","e","r","v","e","r","_","u","p","t","i","m","e","_","s","e","c","o","n","d","s">>
mcp_server_memory_usage_bytes == <<"m","c","p","_","s","e","r","v","e","r","_","m","e","m","o","r","y","_","u","s","a","g","e","_","b","y","t","e","s">>
mcp_server_cpu_usage_microseconds == <<"m","c","p","_","s","e","r","v","e","r","_","c","p","u","_","u","s","a","g","e","_","m","i","c","r","o","s","e","c","o","n","d","s">>
mcp_server_active_handles == <<"m","c","p","_","s","e","r","v","e","r","_","a","c","t","i","v","e","_","h","a","n","d","l","e","s">>
mcp_server_active_requests == <<"m","c","p","_","s","e","r","v","e","r","_","a","c","t","i","v","e","_","r","e","q","u","e","s","t","s">>
txt_type == <<"t","y","p","e">>

\* the gauges collectSystemMetrics records, in its order
systemGauges ==
  << [name |-> mcp_server_uptime_seconds, labels |-> NoLabels],
     [name |-> mcp_server_memory_usage_bytes, labels |-> <<Label(txt_type, <<"r","s","s">>)>>],
     [name |-> mcp_server_memory_usage_bytes,
      labels |-> <<Label(txt_type, <<"h","e","a","p","_","u","s","e","d">>)>>],
     [name |-> mcp_server_memory_usage_bytes,
      labels |-> <<Label(txt_type, <<"h","e","a","p","_","t","o","t","a","l">>)>>],
     [name |-> mcp_server_memory_usage_bytes,
      labels |-> <<Label(txt_type, <<"e","x","t","e","r","n","a","l">>)>>],
     [name |-> mcp_server_cpu_usage_microseconds, labels |-> <<Label(txt_type, <<"u","s","e","r">>)>>],
     [name |-> mcp_server_cpu_usage_microseconds,
      labels |-> <<Label(txt_type, <<"s","y","s","t","e","m">>)>>],
     [name |-> mcp_server_active_handles, labels |-> NoLabels],
     [name |-> mcp_server_active_requests, labels |-> NoLabels] >>

\* MetricsManager.collectSystemMetrics at time t, every reading being sample
RECURSIVE recordGauges(_, _, _, _)
recordGauges(m, gauges, sample, t) ==
  IF gauges = <<>> THEN m
  ELSE recordGauges(recordGauge(m, Head(gauges).name, sample, Head(gauges).labels, t),
                    Tail(gauges), sample, t)

collectSystemMetrics(m, sample, t) == recordGauges(m, systemGauges, sample, t)

\* bounds: the calls made on one manager, the timers it may create, the
\* clock while the manager is observed
MaxMetricOps == 3
MaxTimers == 2
MaxMetricTime == 1

txt_c == <<"c">>
txt_c_0 == <<"c", "_", "0">>
txt_tool == <<"t","o","o","l">>
txt_status == <<"s","t","a","t","u","s">>
txt_ok == <<"o","k">>

MetricNames == {txt_c, txt_c_0}
MetricLabels ==
  { NoLabels,
    <<Label(txt_tool, txt_c), Label(txt_status, txt_ok)>>,
    <<Label(txt_status, txt_ok), Label(txt_tool, txt_c)>> }
\* the counters asked for: a name alone, a name that reads as another name's
\* timestamped key, and one name with the same two labels in either order
MetricCalls ==
  { <<txt_c, NoLabels>>, <<txt_c_0, NoLabels>> } \cup
  { <<txt_c, labels>> : labels \in MetricLabels \ {NoLabels} }
SampleValues == {1}

\* the set of the entries of a labels object
labelSet(labels) == {labels[i] : i \in 1..Len(labels)}

\* the incrementCounter calls made for a name and a label set since the map
\* was last cleared
countedFor(m, name, labels) ==
  IF <<name, labelSet(labels)>> \in DOMAIN m.counted
  THEN m.counted[<<name, labelSet(labels)>>]
  ELSE 0

UnchangedByMetrics ==
  UNCHANGED <<now, policies, rateLimits, lastCall, checks, evalIn, evalOut,
              transport, requests, connector, registry>>

\* one call on the manager is accounted for
called(m, op) == [m EXCEPT !.ops = @ + 1, !.lastOp = op, !.got = NoGot]

\* the server's start() calls metricsManager.start()
MetricsManagerStart ==
  /\ metricsManager.ops < MaxMetricOps
  /\ metricsManager.created < MaxTimers
  /\ metricsManager' = called(metricsManagerStart(metricsManager), "start")
  /\ UnchangedByMetrics

\* the server's stop() calls metricsManager.stop()
MetricsManagerStop ==
  /\ metricsManager.ops < MaxMetricOps
  /\ metricsManager' =
       [called(metricsManagerStop(metricsManager), "stop") EXCEPT !.counted = EmptyMap]
  /\ UnchangedByMetrics

\* a scheduled timer fires and runs collectSystemMetrics
TimerFires(timer, sample) ==
  /\ metricsManager.ops < MaxMetricOps
  /\ timer \in metricsManager.timers
  /\ metricsManager' = called(collectSystemMetrics(metricsManager, sample, now), "collect")
  /\ UnchangedByMetrics

\* incrementCounter(name, labels) is called
IncrementCounter(name, labels) ==
  /\ metricsManager.ops < MaxMetricOps
  /\ metricsManager' =
       [called(incrementCounter(metricsManager, name, labels, now), "incrementCounter")
        EXCEPT !.counted = MapSet(@, <<name, labelSet(labels)>>,
                                  countedFor(metricsManager, name, labels) + 1)]
  /\ UnchangedByMetrics

\* clearMetrics() is called
ClearMetrics ==
  /\ metricsManager.ops < MaxMetricOps
  /\ metricsManager' =
       [called(clearMetrics(metricsManager), "clearMetrics") EXCEPT !.counted = EmptyMap]
  /\ UnchangedByMetrics

\* getMetric(name, labels) is called
GetMetric(name, labels) ==
  /\ metricsManager' = [metricsManager EXCEPT !.got = getMetric(metricsManager, name, labels)]
  /\ UnchangedByMetrics

InitMetrics ==
  /\ SecIdle /\ EvalIdle /\ DispIdle
  /\ connector = NoConnector
  /\ registry = NoRegistry
  /\ \E enabled \in BOOLEAN : metricsManager = newMetricsManager(enabled)

NextMetrics ==
  \/ (now < MaxMetricTime /\ Tick)
  \/ MetricsManagerStart
  \/ MetricsManagerStop
  \/ \E timer \in 1..MaxTimers, sample \in SampleValues : TimerFires(timer, sample)
  \/ \E call \in MetricCalls : IncrementCounter(call[1], call[2])
  \/ ClearMetrics
  \/ \E call \in MetricCalls : GetMetric(call[1], call[2])

SpecMetrics == InitMetrics /\ [][NextMetrics]_vars

\* C39: whatever the order of construction, start() and stop(), at most one
\* collection timer is scheduled at any time, and when stop() has returned no
\* timer of the manager is scheduled and the metrics map is empty.
C39_OneCollectionTimer ==
  /\ Cardinality(metricsManager.timers) <= 1
  /\ metricsManager.lastOp = "stop" =>
       /\ metricsManager.timers = {}
       /\ DOMAIN metricsManager.metrics = {}

\* C40: with metrics enabled, when incrementCounter(name, labels) was called
\* n >= 1 times since the map was last cleared, getMetric(name, labels)
\* returns a metric of value n and the map holds exactly one entry of that
\* name and label set.
C40_CounterCountsCalls ==
  metricsManager.enabled =>
    /\ \A name \in MetricNames, labels \in MetricLabels :
         countedFor(metricsManager, name, labels) >= 1 =>
           Cardinality({key \in DOMAIN metricsManager.metrics :
                          /\ metricsManager.metrics[key].name = name
                          /\ labelSet(metricsManager.metrics[key].labels) = labelSet(labels)}) = 1
    /\ (/\ metricsManager.got.asked
        /\ countedFor(metricsManager, metricsManager.got.name, metricsManager.got.labels) >= 1) =>
         /\ metricsManager.got.defined
         /\ metricsManager.got.metric.value =
              countedFor(metricsManager, metricsManager.got.name, metricsManager.got.labels)

\* ------------------------------------------------------------ the registries
\* number of progress frames the streaming endpoint writes
ProgressFrames == 5

\* the names ToolManager.registerTools registers: a cluster-facing tool and a
\* placeholder tool stand for the rest
registerTools == {get_pods, kubectl, validate_yaml}

\* the names PromptManager.registerPrompts registers
registerPrompts == {"k8s-pod-diagnose", "k8s-cluster-health"}

\* KubernetesManager.connectionEstablished once start() has returned:
\* start() skips initialize() on the chunked transport
connectionEstablished == transport # "http-chunked"

\* how the handler of a registered tool can end: a placeholder returns an
\* error-flagged result; kubectl returns the executor's result, error-flagged
\* on failure; a cluster-facing handler returns its result or throws, and
\* always throws while the connector is not initialized
handlerOutcomes(tool) ==
  IF tool = validate_yaml THEN {"isError"}
  ELSE IF tool = kubectl
       THEN IF connectionEstablished THEN {"returns", "isError"} ELSE {"isError"}
  ELSE IF connectionEstablished THEN {"returns", "throws"} ELSE {"throws"}

Envelope(isError, template, message) ==
  [isError |-> isError, template |-> template, message |-> message]
NoEnvelope == Envelope(FALSE, "", "")

\* ToolManager.execute once the handler, if any, has ended with outcome
toolManagerExecute(tool, outcome) ==
  IF tool \notin registerTools
  THEN [threw |-> TRUE, message |-> "Tool not found", result |-> NoEnvelope]
  ELSE IF outcome = "throws"
  THEN [threw |-> FALSE, message |-> "",
        result |-> Envelope(TRUE, "Error executing tool '': ", "handler error")]
  ELSE [threw |-> FALSE, message |-> "",
        result |-> Envelope(outcome = "isError", "", "tool result")]

\* the prompt handlers: handlePodDiagnostics throws without a pod name
promptHandlerThrows(prompt, args) ==
  /\ prompt = "k8s-pod-diagnose"
  /\ ~(args.present /\ "podName" \in DOMAIN args.map /\ args.map["podName"] # "")

\* PromptManager.getPrompt
promptManagerGetPrompt(prompt, args) ==
  IF prompt \notin registerPrompts
  THEN [threw |-> TRUE, message |-> "Prompt not found", ran |-> FALSE]
  ELSE IF promptHandlerThrows(prompt, args)
  THEN [threw |-> TRUE, message |-> "Pod name is required", ran |-> TRUE]
  ELSE [threw |-> FALSE, message |-> "", ran |-> TRUE]

\* ------------------------------------------------------------ the dispatcher
Response(kind, envelope, metric) ==
  [kind |-> kind, envelope |-> envelope, metric |-> metric]
NoResponse == Response("none", NoEnvelope, "none")

\* the tool-call handler that lets the exception of execute() escape
callToolResponse_noCatch(exec) ==
  IF exec.threw
  THEN Response("thrown", Envelope(FALSE, "", exec.message), "error")
  ELSE Response("envelope", exec.result, "operation")

\* the try/catch of the CallTool request handler around execute()
callToolResponse(exec) ==
  IF exec.threw
  THEN Response("envelope", Envelope(TRUE, "Error executing tool : ", exec.message), "error")
  ELSE Response("envelope", exec.result, "operation")

\* the try/catch of the GetPrompt request handler: it rethrows
getPromptResponse(got) ==
  IF got.threw
  THEN Response("thrown", Envelope(FALSE, "", got.message), "error")
  ELSE Response("prompt", NoEnvelope, "operation")

\* the try/catch of the ListTools, ListResources and ListPrompts request
\* handlers: the listings are built from the handlers maps and do not throw
listResponse == Response("list", NoEnvelope, "operation")

\* ResourceManager.readResource up to the handler's await: the scheme is
\* looked up and the handler reads its coordinates from the URI
resourceManagerReadResource(uri) ==
  IF uri.scheme \notin {registerResourcesOrder[i] : i \in 1..Len(registerResourcesOrder)}
  THEN [threw |-> TRUE, message |-> "No handler found for scheme: ", awaits |-> FALSE]
  ELSE LET read == handleResource(uri, connectionEstablished)
       IN [threw |-> read.threw, message |-> read.error, awaits |-> read.clusterCalled]

\* the try/catch of the ReadResource request handler: it rethrows
readResourceResponse(read) ==
  IF read.threw
  THEN Response("thrown", Envelope(FALSE, "", read.message), "error")
  ELSE Response("contents", NoEnvelope, "operation")

\* the call of MetricsManager.recordOperation or recordError that a request
\* handler makes before it returns or rethrows
MetricCall(call, prefix, name) == [call |-> call, prefix |-> prefix, name |-> name]

metricCalls(resp, prefix, name) ==
  IF resp.metric = "operation" THEN <<MetricCall("recordOperation", prefix, name)>>
  ELSE IF resp.metric = "error" THEN <<MetricCall("recordError", prefix, name)>>
  ELSE <<>>

RequestIds == 1..MaxRequests

IdleRequest ==
  [kind |-> "none", tool |-> <<>>, prompt |-> "", uri |-> Uri("", <<>>), pc |-> "IDLE",
   validated |-> FALSE, decision |-> "none", handlerRan |-> FALSE, handlerThrew |-> FALSE,
   frames |-> <<>>, closed |-> FALSE, response |-> NoResponse, recorded |-> <<>>]

Terminal(q) == q.pc \in {"SUCCESS", "FAILED", "DENIED", "THROWN"}

RequestTools == {get_pods, validate_yaml, no_such_tool}
ToolArgs == {NoParams, CommandParams("get")}
RequestPrompts == {"k8s-pod-diagnose", "k8s-cluster-health", "no-such-prompt"}
PromptArgs == {NoParams, Params([k \in {"podName"} |-> "web"])}
ListKinds == {"list_tools", "list_resources", "list_prompts"}
RequestUris ==
  {Uri("k8s-pod", <<"default", "web">>), Uri("k8s-pod", <<"", "default", "web">>),
   Uri("no-such-scheme", <<"default">>)}

UnchangedSecurity == UNCHANGED <<now, policies, lastCall, checks, evalIn, evalOut, transport, extVars>>

\* CallTool handler, up to the await of validateAccess: the decision is
\* awaited and dropped
CallToolRequest(r, tool, args) ==
  /\ transport # "http-chunked"
  /\ requests[r].pc = "IDLE"
  /\ LET out == validateAccess(policies, rateLimits, now, EmptyContext, tool, "execute", args)
     IN /\ rateLimits' = out.rateLimits
        /\ requests' = [requests EXCEPT ![r] =
             [IdleRequest EXCEPT !.kind = "call_tool", !.tool = tool,
                                 !.pc = "POLICY_CHECK", !.validated = TRUE,
                                 !.decision = IF out.result THEN "allow" ELSE "deny"]]
  /\ UnchangedSecurity

\* CallTool handler, from validateAccess to the handler's first await
CallToolRoute(r) ==
  /\ requests[r].kind = "call_tool"
  /\ requests[r].pc = "POLICY_CHECK"
  /\ IF requests[r].tool \in registerTools
     THEN requests' = [requests EXCEPT ![r].pc = "EXECUTE", ![r].handlerRan = TRUE]
     ELSE LET resp == callToolResponse(toolManagerExecute(requests[r].tool, "none"))
          IN requests' = [requests EXCEPT
               ![r].pc = IF resp.kind = "thrown" THEN "THROWN" ELSE "FAILED",
               ![r].response = resp,
               ![r].recorded = metricCalls(resp, "tool_", requests[r].tool)]
  /\ UNCHANGED rateLimits /\ UnchangedSecurity

\* the tool's handler ends; execute() and the CallTool handler return
CallToolSettle(r, outcome) ==
  /\ requests[r].kind = "call_tool"
  /\ requests[r].pc = "EXECUTE"
  /\ outcome \in handlerOutcomes(requests[r].tool)
  /\ LET resp == callToolResponse(toolManagerExecute(requests[r].tool, outcome))
     IN requests' = [requests EXCEPT
          ![r].handlerThrew = (outcome = "throws"),
          ![r].pc = IF resp.kind = "thrown" THEN "THROWN"
                    ELSE IF resp.envelope.isError THEN "FAILED" ELSE "SUCCESS",
          ![r].response = resp,
          ![r].recorded = metricCalls(resp, "tool_", requests[r].tool)]
  /\ UNCHANGED rateLimits /\ UnchangedSecurity

\* GetPrompt handler: getPrompt and the prompt handlers never wait for I/O
GetPromptRequest(r, prompt, args) ==
  /\ transport # "http-chunked"
  /\ requests[r].pc = "IDLE"
  /\ LET got == promptManagerGetPrompt(prompt, args)
         resp == getPromptResponse(got)
     IN requests' = [requests EXCEPT ![r] =
          [IdleRequest EXCEPT !.kind = "get_prompt", !.prompt = prompt,
                              !.handlerRan = got.ran,
                              !.handlerThrew = (got.ran /\ got.threw),
                              !.pc = IF resp.kind = "thrown" THEN "THROWN" ELSE "SUCCESS",
                              !.response = resp,
                              !.recorded = metricCalls(resp, "prompt_", prompt)]]
  /\ UNCHANGED rateLimits /\ UnchangedSecurity

\* ListTools, ListResources and ListPrompts handlers
ListRequest(r, kind) ==
  /\ transport # "http-chunked"
  /\ requests[r].pc = "IDLE"
  /\ requests' = [requests EXCEPT ![r] =
       [IdleRequest EXCEPT !.kind = kind, !.pc = "SUCCESS",
                           !.response = listResponse,
                           !.recorded = metricCalls(listResponse, kind, "")]]
  /\ UNCHANGED rateLimits /\ UnchangedSecurity

\* a ReadResource handler that validates access as the CallTool handler does
ReadResourceRequest_validated(r, uri) ==
  /\ transport # "http-chunked"
  /\ requests[r].pc = "IDLE"
  /\ LET out == validateAccess(policies, rateLimits, now, EmptyContext,
                               resources_k8s_pod, "read", NoParams)
     IN /\ rateLimits' = out.rateLimits
        /\ requests' = [requests EXCEPT ![r] =
             [IdleRequest EXCEPT !.kind = "read_resource", !.uri = uri,
                                 !.pc = "EXECUTE", !.validated = TRUE]]
  /\ UnchangedSecurity

\* ReadResource handler, up to the await of the resource handler's read
ReadResourceRequest(r, uri) ==
  /\ transport # "http-chunked"
  /\ requests[r].pc = "IDLE"
  /\ LET read == resourceManagerReadResource(uri)
         resp == readResourceResponse(read)
     IN IF read.awaits
        THEN requests' = [requests EXCEPT ![r] =
               [IdleRequest EXCEPT !.kind = "read_resource", !.uri = uri,
                                   !.pc = "EXECUTE", !.handlerRan = TRUE]]
        ELSE requests' = [requests EXCEPT ![r] =
               [IdleRequest EXCEPT !.kind = "read_resource", !.uri = uri,
                                   !.pc = "THROWN", !.response = resp,
                                   !.recorded = metricCalls(resp, "read_resource", "")]]
  /\ UNCHANGED rateLimits /\ UnchangedSecurity

\* the read of the cluster ends; readResource and the handler return or rethrow
ReadResourceSettle(r, outcome) ==
  /\ requests[r].kind = "read_resource"
  /\ requests[r].pc = "EXECUTE"
  /\ LET resp == readResourceResponse([threw |-> outcome = "throws",
                                       message |-> "cluster error", awaits |-> TRUE])
     IN requests' = [requests EXCEPT
          ![r].handlerThrew = (outcome = "throws"),
          ![r].pc = IF resp.kind = "thrown" THEN "THROWN" ELSE "SUCCESS",
          ![r].response = resp,
          ![r].recorded = metricCalls(resp, "read_resource", "")]
  /\ UNCHANGED rateLimits /\ UnchangedSecurity

\* POST /call-tool-chunked, up to the first timer of the progress loop
ChunkedRequest(r, tool, args) ==
  /\ transport = "http-chunked"
  /\ requests[r].pc = "IDLE"
  /\ requests' = [requests EXCEPT ![r] =
       [IdleRequest EXCEPT !.kind = "chunked", !.tool = tool,
                           !.pc = "PROGRESS"]]
  /\ UNCHANGED rateLimits /\ UnchangedSecurity

ProgressFrame(i) == [type |-> "progress", value |-> i * 20, envelope |-> NoEnvelope]
DoneFrame(result) == [type |-> "done", value |-> 0, envelope |-> result]
ErrorFrame(message) == [type |-> "error", value |-> 0, envelope |-> Envelope(FALSE, "", message)]

\* the progress loop that stops one frame early
progressLoopContinues_short(written) == written < ProgressFrames - 1

\* the condition of the progress loop, i < 5, once `written` frames are out
progressLoopContinues(written) == written < ProgressFrames

\* the end of the endpoint whose catch block does not end the response
chunkedTerminal_noEnd(exec) ==
  IF exec.threw
  THEN [frame |-> ErrorFrame(exec.message), closed |-> FALSE]
  ELSE [frame |-> DoneFrame(exec.result), closed |-> TRUE]

\* the end of the endpoint once execute() has settled: the try block writes
\* the done frame and ends the response, the catch block writes the error
\* frame and ends the response
chunkedTerminal(exec) ==
  IF exec.threw
  THEN [frame |-> ErrorFrame(exec.message), closed |-> TRUE]
  ELSE [frame |-> DoneFrame(exec.result), closed |-> TRUE]

\* one timer of the progress loop fires; after the last frame execute() is
\* called and runs to the handler's first await
ChunkedProgress(r) ==
  /\ requests[r].kind = "chunked"
  /\ requests[r].pc = "PROGRESS"
  /\ LET written == Append(requests[r].frames, ProgressFrame(Len(requests[r].frames) + 1))
         exec == toolManagerExecute(requests[r].tool, "none")
         last == chunkedTerminal(exec)
     IN IF progressLoopContinues(Len(written))
        THEN requests' = [requests EXCEPT ![r].frames = written]
        ELSE IF requests[r].tool \in registerTools
        THEN requests' = [requests EXCEPT ![r].frames = written, ![r].pc = "EXECUTE",
                                          ![r].handlerRan = TRUE]
        ELSE requests' = [requests EXCEPT
               ![r].frames = Append(written, last.frame),
               ![r].closed = last.closed, ![r].pc = "FAILED",
               ![r].response = Response("frames", NoEnvelope, "none")]
  /\ UNCHANGED rateLimits /\ UnchangedSecurity

\* the tool's handler ends; the endpoint writes the done frame and ends
ChunkedSettle(r, outcome) ==
  /\ requests[r].kind = "chunked"
  /\ requests[r].pc = "EXECUTE"
  /\ outcome \in handlerOutcomes(requests[r].tool)
  /\ LET exec == toolManagerExecute(requests[r].tool, outcome)
         last == chunkedTerminal(exec)
     IN requests' = [requests EXCEPT
          ![r].handlerThrew = (outcome = "throws"),
          ![r].frames = Append(@, last.frame),
          ![r].closed = last.closed,
          ![r].pc = IF exec.result.isError THEN "FAILED" ELSE "SUCCESS",
          ![r].response = Response("frames", exec.result, "none")]
  /\ UNCHANGED rateLimits /\ UnchangedSecurity

\* the response has gone to the client; the slot serves the next request
Respond(r) ==
  /\ Terminal(requests[r])
  /\ requests' = [requests EXCEPT ![r] = IdleRequest]
  /\ UNCHANGED rateLimits /\ UnchangedSecurity

\* the server after start(): one of the three transports is serving
Init ==
  /\ SecInit /\ EvalIdle /\ ExtIdle
  /\ transport \in {"stdio", "sse", "http-chunked"}
  /\ requests = [r \in RequestIds |-> IdleRequest]

Next ==
  \/ Tick
  \/ AddPolicy("default", permissivePolicy)
  \/ \E r \in RequestIds, tool \in RequestTools, args \in ToolArgs : CallToolRequest(r, tool, args)
  \/ \E r \in RequestIds : CallToolRoute(r)
  \/ \E r \in RequestIds, outcome \in {"returns", "isError", "throws"} : CallToolSettle(r, outcome)
  \/ \E r \in RequestIds, prompt \in RequestPrompts, args \in PromptArgs :
       GetPromptRequest(r, prompt, args)
  \/ \E r \in RequestIds, kind \in ListKinds : ListRequest(r, kind)
  \/ \E r \in RequestIds, uri \in RequestUris : ReadResourceRequest(r, uri)
  \/ \E r \in RequestIds, outcome \in {"returns", "throws"} : ReadResourceSettle(r, outcome)
  \/ \E r \in RequestIds, tool \in RequestTools, args \in ToolArgs : ChunkedRequest(r, tool, args)
  \/ \E r \in RequestIds : ChunkedProgress(r)
  \/ \E r \in RequestIds, outcome \in {"returns", "isError", "throws"} : ChunkedSettle(r, outcome)
  \/ \E r \in RequestIds : Respond(r)

Spec == Init /\ [][Next]_vars

\* C1: a tool invocation whose policy decision is deny, by rule or by rate
\* limit, ends in DENIED: the tool's handler is never run for it and what it
\* returns is an error-flagged authorization error.
C1_DeniedNeverExecutes ==
  \A r \in RequestIds :
    (requests[r].kind = "call_tool" /\ requests[r].decision = "deny") =>
      /\ ~requests[r].handlerRan
      /\ requests[r].pc \in {"POLICY_CHECK", "DENIED"}
      /\ Terminal(requests[r]) =>
           /\ requests[r].response.kind = "envelope"
           /\ requests[r].response.envelope.isError
           /\ requests[r].response.envelope.message = "authorization"

\* C2: on the protocol tool call and on POST /call-tool-chunked alike, a tool
\* handler runs only after validateAccess has completed for that request.
C2_PolicyCheckedBeforeHandler ==
  \A r \in RequestIds :
    (requests[r].kind \in {"call_tool", "chunked"} /\ requests[r].handlerRan) =>
      requests[r].validated

\* C9: a tool invocation never lets an exception out of the dispatcher; for an
\* unregistered tool name and for a registered tool whose handler throws it
\* returns an envelope with isError set that carries the error message.
C9_ToolErrorsContained ==
  \A r \in RequestIds :
    requests[r].kind = "call_tool" =>
      /\ requests[r].pc # "THROWN"
      /\ requests[r].response.kind # "thrown"
      /\ (Terminal(requests[r]) /\ requests[r].tool \notin registerTools) =>
           /\ requests[r].response.kind = "envelope"
           /\ requests[r].response.envelope.isError
           /\ requests[r].response.envelope.message = "Tool not found"
      /\ (Terminal(requests[r]) /\ requests[r].handlerThrew) =>
           /\ requests[r].response.kind = "envelope"
           /\ requests[r].response.envelope.isError
           /\ requests[r].response.envelope.message = "handler error"

\* a tool call whose handler threw has ended with an error-flagged envelope
C9_Witness ==
  \E r \in RequestIds :
    /\ requests[r].kind = "call_tool" /\ Terminal(requests[r])
    /\ requests[r].handlerThrew
    /\ requests[r].response.kind = "envelope"
    /\ requests[r].response.envelope.isError

\* C10: a prompt render whose handler throws returns an error-flagged envelope
\* with the error message; no exception crosses the protocol boundary.
C10_PromptErrorsContained ==
  \A r \in RequestIds :
    (requests[r].kind = "get_prompt" /\ requests[r].handlerThrew) =>
      /\ requests[r].pc # "THROWN"
      /\ requests[r].response.kind = "envelope"
      /\ requests[r].response.envelope.isError
      /\ requests[r].response.envelope.message = "Pod name is required"

\* the frames of a kind
IsProgress(f) == f.type = "progress"
IsTerminalFrame(f) == f.type \in {"done", "error"}

\* C11: every response of POST /call-tool-chunked is zero or more progress
\* frames followed by exactly one terminal frame, a done frame carrying the
\* Result Envelope or an error frame; the response is ended with the terminal
\* frame and holds no frame after it, whether the tool succeeds, fails or is
\* not registered.
C11_OneTerminalFrame ==
  \A r \in RequestIds :
    requests[r].kind = "chunked" =>
      LET f == requests[r].frames
          n == Len(f)
      IN /\ \A i \in 1..(n - 1) : IsProgress(f[i])
         /\ requests[r].closed = (n > 0 /\ IsTerminalFrame(f[n]))
         /\ Terminal(requests[r]) = requests[r].closed
         /\ (n > 0 /\ f[n].type = "done") =>
              /\ requests[r].handlerRan
              /\ f[n].envelope = requests[r].response.envelope
              /\ f[n].envelope.isError = (requests[r].pc = "FAILED")
         /\ (n > 0 /\ f[n].type = "error") =>
              /\ requests[r].tool \notin registerTools
              /\ requests[r].pc = "FAILED"

\* a streamed call whose handler threw has ended with a done frame that
\* carries the error-flagged envelope
C11_Witness ==
  \E r \in RequestIds :
    /\ requests[r].kind = "chunked" /\ requests[r].closed
    /\ requests[r].handlerThrew
    /\ Len(requests[r].frames) = ProgressFrames + 1
    /\ requests[r].frames[ProgressFrames + 1].type = "done"
    /\ requests[r].frames[ProgressFrames + 1].envelope.isError

\* C12: on the streaming endpoint the registry is called only after all
\* ProgressFrames progress frames are written; the frames carry 20, 40, ...
\* whatever the tool name is, and an unregistered name gives the same progress
\* frames followed by one terminal frame with an error field.
C12_ProgressPrecedesDispatch ==
  \A r \in RequestIds :
    requests[r].kind = "chunked" =>
      LET f == requests[r].frames
      IN /\ \A i \in 1..Len(f) : i <= ProgressFrames =>
              (f[i].type = "progress" /\ f[i].value = i * 20)
         /\ requests[r].pc = "PROGRESS" =>
              (Len(f) < ProgressFrames /\ ~requests[r].handlerRan)
         /\ requests[r].pc # "PROGRESS" => Len(f) >= ProgressFrames
         /\ (Terminal(requests[r]) /\ requests[r].tool \notin registerTools) =>
              /\ Len(f) = ProgressFrames + 1
              /\ f[ProgressFrames + 1].type = "error"
              /\ f[ProgressFrames + 1].envelope.message = "Tool not found"
              /\ ~requests[r].handlerRan

\* a streamed call of an unregistered tool has ended after all its progress
\* frames with an error frame
C12_Witness ==
  \E r \in RequestIds :
    /\ requests[r].kind = "chunked" /\ Terminal(requests[r])
    /\ requests[r].tool = no_such_tool
    /\ Len(requests[r].frames) = ProgressFrames + 1
    /\ requests[r].frames[ProgressFrames].value = 100
    /\ requests[r].frames[ProgressFrames + 1].type = "error"

\* the operation name a request's metric carries
OperationOf(q) ==
  IF q.kind = "call_tool" THEN MetricCall("", "tool_", q.tool)
  ELSE IF q.kind = "get_prompt" THEN MetricCall("", "prompt_", q.prompt)
  ELSE MetricCall("", q.kind, "")

DispatcherKinds ==
  {"list_tools", "call_tool", "list_resources", "read_resource", "list_prompts", "get_prompt"}

\* C29: every request the dispatcher handles records exactly one outcome
\* metric before it returns, carrying the operation name: a success/duration
\* record if and only if the request ended in SUCCESS, an error record if
\* and only if it ended in DENIED or FAILED (a tool call whose returned
\* envelope is error-flagged, or a request that fails at protocol level).
C29_OneOutcomeMetric ==
  \A r \in RequestIds :
    LET q == requests[r]
    IN (q.kind \in DispatcherKinds /\ Terminal(q)) =>
         /\ Len(q.recorded) = 1
         /\ q.recorded[1].prefix = OperationOf(q).prefix
         /\ q.recorded[1].name = OperationOf(q).name
         /\ q.recorded[1].call = "recordOperation" <=> q.pc = "SUCCESS"
         /\ q.recorded[1].call = "recordError" <=> q.pc \in {"DENIED", "FAILED", "THROWN"}

\* C30: resource-read and prompt-render requests and the three list requests
\* never call the Access Policy Engine: a step of such a request leaves
\* every identity's rate-limit window unchanged, and such a request is
\* never validated and never denied.
C30_ReadsNotPolicyChecked ==
  [][\A r \in RequestIds :
       (/\ requests'[r] # requests[r]
        /\ requests'[r].kind \in DispatcherKinds \ {"call_tool"}) =>
         /\ rateLimits' = rateLimits
         /\ ~requests'[r].validated
         /\ requests'[r].decision = "none"
         /\ requests'[r].pc # "DENIED"]_vars

\* a resource read that reached the cluster and returned, after a tool call
\* has put an entry into the anonymous identity's window
C30_Witness ==
  \E r \in RequestIds :
    /\ requests[r].kind = "read_resource"
    /\ requests[r].pc = "SUCCESS"
    /\ requests[r].handlerRan
    /\ rateLimits # EmptyMap

\* C32: while the policies are the built-in ones and the anonymous identity's
\* window is not full, the decision the CallTool handler obtains from
\* validateAccess for a registered tool is allow.
C32_DefaultPolicyAllowsTools ==
  [][ \A r \in RequestIds :
        ( /\ requests[r].pc = "IDLE"
          /\ requests'[r].pc = "POLICY_CHECK"
          /\ requests'[r].tool \in registerTools
          /\ policies = initializeDefaultPolicies
          /\ Len(pruneWindow(windowOf(rateLimits, "anonymous"), now)) < rateLimitMaxRequests )
        => requests'[r].decision = "allow" ]_vars

\* C36: on each of the three transports the connector was initialized before
\* the first request is served: whenever a request has been taken up, and in
\* particular whenever the handler of the cluster-facing tool get_pods has
\* run, ensureInitialized does not throw.
C36_InitializedBeforeServing ==
  \A r \in RequestIds :
    /\ requests[r].kind # "none" => connectionEstablished
    /\ (requests[r].tool = get_pods /\ requests[r].handlerRan) => connectionEstablished

====
